---------------------------- MODULE Spec2Model ----------------------------
(***************************************************************************)
(* Real-Time Linguistic Bridge: the voice pipeline of                      *)
(* src/frontend/script.js (classify -> translate -> quote -> guide ->      *)
(* render -> display) as a state machine.                                   *)
(*                                                                         *)
(* Conventions.                                                            *)
(*  - A JavaScript value that may be null/undefined is a sequence of       *)
(*    length 0 (absent) or 1 (present): None, Some(v), Get(o).             *)
(*  - Confidences are integers in thousandths (0.95 is 950).               *)
(*  - A call that can throw yields a record with a field "threw".          *)
(*  - Strings are character sequences; text operations are computed        *)
(*    character by character as the source's String methods do.            *)
(***************************************************************************)
EXTENDS Integers, Sequences, FiniteSets, TLC

None == << >>
Some(v) == << v >>
Get(o) == o[1]
IsNull(o) == o = << >>

Max(a, b) == IF a >= b THEN a ELSE b
Min(a, b) == IF a <= b THEN a ELSE b

(***************************************************************************)
(* String primitives (String.prototype.includes, toLowerCase, the regular  *)
(* expression classes \w, \d).                                             *)
(***************************************************************************)
\* substring(a - 1, b): the characters a..b that exist
Slice(s, a, b) ==
  IF a > Len(s) \/ b < a THEN "" ELSE SubSeq(s, Max(a, 1), Min(b, Len(s)))

Char(s, i) == Slice(s, i, i)

Includes(s, k) ==
  \E i \in 1..(Len(s) - Len(k) + 1) : SubSeq(s, i, i + Len(k) - 1) = k

UpperChars == "ABCDEFGHIJKLMNOPQRSTUVWXYZ"
LowerChars == "abcdefghijklmnopqrstuvwxyz"
DigitChars == "0123456789"

UpperSet == { SubSeq(UpperChars, i, i) : i \in 1..Len(UpperChars) }
LowerSet == { SubSeq(LowerChars, i, i) : i \in 1..Len(LowerChars) }
DigitSet == { SubSeq(DigitChars, i, i) : i \in 1..Len(DigitChars) }
WordSet == UpperSet \cup LowerSet \cup DigitSet \cup { "_" }

\* the lower-case letter of every upper-case letter
LowerOf ==
  [ c \in UpperSet |->
      SubSeq(LowerChars, CHOOSE i \in 1..Len(UpperChars) : SubSeq(UpperChars, i, i) = c,
                         CHOOSE i \in 1..Len(UpperChars) : SubSeq(UpperChars, i, i) = c) ]

\* the value of every digit
DigitValue ==
  [ c \in DigitSet |-> (CHOOSE i \in 1..Len(DigitChars) : SubSeq(DigitChars, i, i) = c) - 1 ]

IsDigit(c) == c \in DigitSet
IsWordChar(c) == c \in WordSet
LowerChar(c) == IF c \in UpperSet THEN LowerOf[c] ELSE c

\* The character-wise operations below split the text in halves, so that the
\* evaluation depth stays logarithmic in its length.
RECURSIVE lowerRange(_, _, _)
lowerRange(s, a, b) ==
  IF a > b THEN ""
  ELSE IF a = b THEN LowerChar(Char(s, a))
  ELSE lowerRange(s, a, (a + b) \div 2) \o lowerRange(s, (a + b) \div 2 + 1, b)

toLowerCase(s) == lowerRange(s, 1, Len(s))

\* replace(/[^\w\s]/g, ' '): every character outside \w and whitespace becomes a space
RECURSIVE stripRange(_, _, _)
stripRange(s, a, b) ==
  IF a > b THEN ""
  ELSE IF a = b THEN (IF IsWordChar(Char(s, a)) THEN Char(s, a) ELSE " ")
  ELSE stripRange(s, a, (a + b) \div 2) \o stripRange(s, (a + b) \div 2 + 1, b)

stripPunctuation(s) == stripRange(s, 1, Len(s))

\* replace(/\s+/g, ' '): of every run of spaces the first one stays
RECURSIVE collapseRange(_, _, _)
collapseRange(s, a, b) ==
  IF a > b THEN ""
  ELSE IF a = b THEN (IF Char(s, a) = " " /\ Char(s, a - 1) = " " THEN "" ELSE Char(s, a))
  ELSE collapseRange(s, a, (a + b) \div 2) \o collapseRange(s, (a + b) \div 2 + 1, b)

collapseSpaces(s) == collapseRange(s, 1, Len(s))

trim(s) ==
  IF \A i \in 1..Len(s) : Char(s, i) = " " THEN ""
  ELSE Slice(s, CHOOSE i \in 1..Len(s) :
                  Char(s, i) # " " /\ \A j \in 1..(i - 1) : Char(s, j) = " ",
                CHOOSE i \in 1..Len(s) :
                  Char(s, i) # " " /\ \A j \in (i + 1)..Len(s) : Char(s, j) = " ")

\* split(' ') of a normalised text: the sequence of its words
RECURSIVE Words(_)
Words(s) ==
  IF s = "" THEN << >>
  ELSE IF ~Includes(s, " ") THEN << s >>
  ELSE LET i == CHOOSE j \in 1..Len(s) :
                  Char(s, j) = " " /\ \A k \in 1..(j - 1) : Char(s, k) # " "
       IN  (IF i = 1 THEN << >> ELSE << SubSeq(s, 1, i - 1) >>)
             \o Words(SubSeq(s, i + 1, Len(s)))

\* /\b(w)\b/ on a text made of words separated by single spaces
HasWord(s, w) == Includes(" " \o s \o " ", " " \o w \o " ")

\* parseInt of a digit string
RECURSIVE parseInt(_)
parseInt(s) ==
  IF s = "" THEN 0
  ELSE 10 * parseInt(SubSeq(s, 1, Len(s) - 1))
         + DigitValue[Char(s, Len(s))]

(***************************************************************************)
(* Inputs.  The utterances handed to the pipeline; two of them are formed  *)
(* of "rate of " and one long word.                                        *)
(***************************************************************************)
NumUtterances == 10
LongWordLen == 90
VeryLongWordLen == 260

RECURSIVE Repeat(_, _)
Repeat(c, n) ==
  IF n = 0 THEN ""
  ELSE IF n = 1 THEN c
  ELSE Repeat(c, n \div 2) \o Repeat(c, n - n \div 2)

AllUtterances ==
  << "",
     "What is the price of 5 kg rice?",
     "Do you have fresh tomatoes?",
     "too expensive",
     "cost of zorblax",
     "onion ka daam kam karo",
     "rate of " \o Repeat("z", LongWordLen),
     "best price please, give discount",
     "I want to buy 10 kg onion",
     "rate of " \o Repeat("z", VeryLongWordLen),
     "rate of rice" >>

Utterances ==
  { AllUtterances[i] : i \in 1..Min(NumUtterances, Len(AllUtterances)) }

\* words no keyword, phrase or contextual rule of the classifier matches
UnmatchedUtterance == "hello there"

(***************************************************************************)
(* IntentClassifier.  intentPatterns and productPatterns are the source's  *)
(* lists restricted to the entries that occur in some utterance above, in  *)
(* source order and with the source's repetitions (an entry listed n times *)
(* scores n times); entries that occur in no utterance never score.        *)
(***************************************************************************)
IntentTypes == << "bargaining", "bulk_purchase", "casual_inquiry" >>

intentKeywords ==
  [ bargaining |->
      << "price", "cost", "expensive", "discount", "best", "daam", "kam", "discount",
         "rate", "kam karo", "rate", "rate", "rate", "discount", "discount", "rate",
         "discount", "rate", "discount", "rate", "rate", "discount", "kam", "discount",
         "rate", "discount", "rate", "discount", "rate", "kam", "kam karo", "discount",
         "rate", "discount", "rate", "kam", "kam kar", "discount", "rate", "kam",
         "discount", "rate", "kam", "discount", "rate", "kam", "discount", "rate",
         "discount", "rate", "kam", "kam kar", "discount", "rate", "discount", "rate",
         "discount", "rate", "discount", "rate", "discount", "rate", "kam", "discount",
         "rate", "rate", "rate", "rate", "rate", "rate" >>,
    bulk_purchase |->
      << "kg" >>,
    casual_inquiry |->
      << "what", "have", "fresh", "best", "fresh", "fresh", "fresh", "fresh",
         "fresh", "fresh", "fresh", "fresh", "fresh", "fresh", "ase", "fresh",
         "ka", "ka", "fresh", "ma", "ou", "est" >> ]

intentPhrases ==
  [ bargaining |-> << "too expensive", "best price", "give discount" >>,
    bulk_purchase |-> << >>,
    casual_inquiry |-> << "do you have" >> ]

ProductCategories == << "grains", "vegetables", "fruits", "dairy", "meat", "cooking" >>

productPatterns ==
  [ grains |->
      << "rice" >>,
    vegetables |->
      << "onion", "tomato", "tomato" >>,
    fruits |->
      << "aam", "aam", "aam", "aam", "aam", "aam", "aam", "aam",
         "aam", "aam", "aam", "aam", "aam" >>,
    dairy |->
      << >>,
    meat |->
      << >>,
    cooking |->
      << >> ]

normalizeText(text) == trim(collapseSpaces(stripPunctuation(toLowerCase(text))))

\* the entries of list that the text includes, in list order
Matching(list, text) == SelectSeq(list, LAMBDA k : Includes(text, k))

\* /\d+\s*(u)/ for one of the units: a digit, optional space, the unit
DigitThenUnit(text, units) ==
  \E i \in 1..Len(text) :
    /\ IsDigit(Char(text, i))
    /\ \E u \in units :
         \/ Slice(text, i + 1, i + Len(u)) = u
         \/ /\ Char(text, i + 1) = " "
            /\ Slice(text, i + 2, i + 1 + Len(u)) = u

applyContextualRules(text, scores) ==
  LET rule1 == DigitThenUnit(text, {"kg", "kilo", "liter", "piece", "dozen", "box", "bag"})
      rule2 == \E w \in {"price", "cost", "rate", "rupee", "rs"} : HasWord(text, w)
      rule3 == \E w \in {"what", "which", "where", "when", "how", "do you", "is it", "are you"} :
                 HasWord(text, w)
      rule4 == \E w \in {"expensive", "cheap", "more", "less", "better", "worse", "compare"} :
                 HasWord(text, w)
      rule5 == \E w \in {"available", "have", "sell", "stock", "fresh", "quality"} :
                 HasWord(text, w)
  IN  [ bargaining |-> scores.bargaining + (IF rule2 THEN 2 ELSE 0) + (IF rule4 THEN 2 ELSE 0),
        bulk_purchase |-> scores.bulk_purchase + (IF rule1 THEN 3 ELSE 0),
        casual_inquiry |-> scores.casual_inquiry + (IF rule3 THEN 1 ELSE 0)
                             + (IF rule5 THEN 2 ELSE 0) ]

calculateIntentScores(text) ==
  applyContextualRules(text,
    [ i \in {"bargaining", "bulk_purchase", "casual_inquiry"} |->
        Len(Matching(intentKeywords[i], text)) + 2 * Len(Matching(intentPhrases[i], text)) ])

MaxScore(scores) ==
  Max(scores.bargaining, Max(scores.bulk_purchase, scores.casual_inquiry))

\* variant: the first type with the highest score, without the default for
\* an utterance that matched nothing
selectPrimaryIntentNoDefault(scores) ==
  IntentTypes[CHOOSE i \in 1..3 :
    /\ scores[IntentTypes[i]] = MaxScore(scores)
    /\ \A j \in 1..(i - 1) : scores[IntentTypes[j]] # MaxScore(scores)]

selectPrimaryIntent(scores) ==
  IF MaxScore(scores) = 0 THEN "casual_inquiry"
  ELSE IntentTypes[CHOOSE i \in 1..3 :
         /\ scores[IntentTypes[i]] = MaxScore(scores)
         /\ \A j \in 1..(i - 1) : scores[IntentTypes[j]] # MaxScore(scores)]


\* every product of productPatterns in iteration order, with its category
AllProducts ==
  LET F[i \in 0..Len(ProductCategories)] ==
        IF i = 0 THEN << >>
        ELSE F[i - 1] \o [ j \in 1..Len(productPatterns[ProductCategories[i]]) |->
                             [ name |-> productPatterns[ProductCategories[i]][j],
                               category |-> ProductCategories[i] ] ]
  IN  F[Len(ProductCategories)]

\* text.match(/\b(buy|sell|price of|cost of|rate of)\s+(\w+)/): group 2 of the leftmost match
productMatch(text) ==
  LET w == Words(text)
      Hit(i) == \/ w[i] \in {"buy", "sell"} /\ i + 1 <= Len(w)
                \/ /\ w[i] \in {"price", "cost", "rate"}
                   /\ i + 2 <= Len(w)
                   /\ w[i + 1] = "of"
      hits == { i \in 1..Len(w) : Hit(i) }
  IN  IF hits = {} THEN None
      ELSE LET i == CHOOSE k \in hits : \A m \in hits : k <= m
           IN  Some(IF w[i] \in {"buy", "sell"} THEN w[i + 1] ELSE w[i + 2])

extractProduct(text) ==
  LET found == SelectSeq(AllProducts, LAMBDA p : Includes(text, p.name))
  IN  IF found # << >> THEN Some(found[1].name) ELSE productMatch(text)

getProductCategory(product) ==
  IF IsNull(product) THEN None
  ELSE LET found == SelectSeq(AllProducts, LAMBDA p : p.name = Get(product))
       IN  IF found # << >> THEN Some(found[1].category) ELSE Some("general")

quantityPatterns ==
  << << "kg", "kilo", "kilogram" >>,
     << "g", "gram", "grams" >>,
     << "l", "liter", "litre" >>,
     << "piece", "pieces", "pc" >>,
     << "dozen", "doz" >>,
     << "box", "boxes" >>,
     << "bag", "bags", "sack" >> >>

RECURSIVE RunEnd(_, _)
RunEnd(text, i) == IF IsDigit(Char(text, i + 1)) THEN RunEnd(text, i + 1) ELSE i

\* text.match(/(\d+)\s*(u1|u2|..)/): the digits and the unit of the leftmost match
quantityMatch(text, units) ==
  LET UnitAt(p) == SelectSeq(units, LAMBDA u : Slice(text, p, p + Len(u) - 1) = u)
      After(i) == IF Char(text, RunEnd(text, i) + 1) = " "
                    THEN RunEnd(text, i) + 2 ELSE RunEnd(text, i) + 1
      hits == { i \in 1..Len(text) : IsDigit(Char(text, i)) /\ UnitAt(After(i)) # << >> }
  IN  IF hits = {} THEN None
      ELSE LET i == CHOOSE k \in hits : \A m \in hits : k <= m
           IN  Some([ amount |-> parseInt(Slice(text, i, RunEnd(text, i))),
                      unit |-> UnitAt(After(i))[1] ])

extractQuantity(text) ==
  LET found == SelectSeq(quantityPatterns, LAMBDA units : quantityMatch(text, units) # None)
  IN  IF found = << >> THEN None ELSE quantityMatch(text, found[1])

extractKeywords(text, intent) ==
  LET all == Matching(intentKeywords[intent], text) \o Matching(intentPhrases[intent], text)
  IN  SubSeq(all, 1, Min(5, Len(all)))

\* variant: the score term not divided by the total score, and no cap
calculateConfidenceUnnormalised(scores, keywords, product) ==
  IF MaxScore(scores) > 0
    THEN 300 + 400 * MaxScore(scores) + Min(100 * Len(keywords), 200)
             + (IF ~IsNull(product) /\ Get(product) # "unknown" THEN 100 ELSE 0)
    ELSE 300

\* variant: the keyword term granted to at most two keywords, not clamped
calculateConfidenceFewKeywords(scores, keywords, product) ==
  LET maxScore == MaxScore(scores)
      totalScore == scores.bargaining + scores.bulk_purchase + scores.casual_inquiry
      raw == IF maxScore > 0
               THEN 300 + (400 * maxScore) \div Max(totalScore, 1)
                        + (IF Len(keywords) <= 2 THEN 100 * Len(keywords) ELSE 0)
                        + (IF ~IsNull(product) /\ Get(product) # "unknown" THEN 100 ELSE 0)
               ELSE 300
  IN  Min(raw, 950)

\* confidence in thousandths: 0.3 + (max/total)*0.4 + min(0.1*k, 0.2) + 0.1, capped at 0.95
calculateConfidence(scores, keywords, product) ==
  LET maxScore == MaxScore(scores)
      totalScore == scores.bargaining + scores.bulk_purchase + scores.casual_inquiry
      raw == IF maxScore > 0
               THEN 300 + (400 * maxScore) \div Max(totalScore, 1)
                        + Min(100 * Len(keywords), 200)
                        + (IF ~IsNull(product) /\ Get(product) # "unknown" THEN 100 ELSE 0)
               ELSE 300
  IN  Min(raw, 950)

\* text is None when the caller passes null or undefined: text.toLowerCase() then
\* throws inside the try and the catch returns the basic classification
classifyIntent(text, language) ==
  IF IsNull(text)
    THEN [ type |-> "casual_inquiry", confidence |-> 300, keywords |-> << >>,
           product |-> "unknown", category |-> "general", quantity |-> None,
           language |-> language, originalText |-> text, fallback |-> FALSE,
           error |-> TRUE ]
    ELSE LET normalizedText == normalizeText(Get(text))
             product == extractProduct(normalizedText)
             quantity == extractQuantity(normalizedText)
             category == getProductCategory(product)
             intentScores == calculateIntentScores(normalizedText)
             primaryIntent == selectPrimaryIntent(intentScores)
             keywords == extractKeywords(normalizedText, primaryIntent)
         IN  [ type |-> primaryIntent,
               confidence |-> calculateConfidence(intentScores, keywords, product),
               keywords |-> keywords,
               product |-> IF IsNull(product) \/ product = Some("") THEN "unknown"
                           ELSE Get(product),
               category |-> IF IsNull(category) THEN "general" ELSE Get(category),
               quantity |-> quantity,
               language |-> language, originalText |-> text, fallback |-> FALSE,
               error |-> FALSE ]

(***************************************************************************)
(* Language codes.                                                         *)
(***************************************************************************)
\* LinguisticBridge.getLanguageCode, for the selector values modelled
getLanguageCode(code) ==
  CASE code = "en-US" -> "english"
    [] code = "hi-IN" -> "hindi"
    [] code = "kn-IN" -> "kannada"
    [] code = "ta-IN" -> "tamil"
    [] OTHER -> "english"

\* langMap[language] || 'english' of TranslationEngine, ResponseGenerator and
\* CulturalContextManager (the three maps are the same)
normalizeLanguageCode(language) ==
  CASE language \in {"en-US", "english"} -> "english"
    [] language \in {"hi-IN", "hindi"} -> "hindi"
    [] language \in {"kn-IN", "kannada"} -> "kannada"
    [] OTHER -> "english"

(***************************************************************************)
(* TranslationEngine.                                                      *)
(***************************************************************************)
\* commonTranslations, restricted to the entries whose source word occurs in
\* some utterance
commonTranslations(key) ==
  CASE key = "english_to_hindi" ->
         Some(<< << "price", "daam" >>, << "cost", "kimat" >>,
                 << "expensive", "mehenga" >>, << "discount", "chhoot" >>,
                 << "fresh", "taaza" >>, << "kg", "kilo" >> >>)
    [] key = "english_to_kannada" ->
         Some(<< << "price", "bele" >>, << "cost", "duddu" >>,
                 << "expensive", "jaasti" >>, << "discount", "discount" >>,
                 << "fresh", "hosa" >>, << "kg", "kilo" >> >>)
    [] key = "hindi_to_english" -> Some(<< << "daam", "price" >> >>)
    [] key = "kannada_to_english" -> Some(<< >>)
    [] OTHER -> None

\* replace(new RegExp(from, 'gi'), to), from position i on: every occurrence
\* of from, compared without regard to case (lower is the text in lower case);
\* with bounded, the expression is \bfrom\b
RECURSIVE replaceIgnoringCase(_, _, _, _, _, _)
replaceIgnoringCase(text, lower, i, from, to, bounded) ==
  LET hits == { k \in i..Len(text) :
                  /\ Slice(lower, k, k + Len(from) - 1) = from
                  /\ bounded => /\ ~IsWordChar(Char(text, k - 1))
                                /\ ~IsWordChar(Char(text, k + Len(from))) }
  IN  IF hits = {} THEN Slice(text, i, Len(text))
      ELSE LET k == CHOOSE h \in hits : \A m \in hits : h <= m
           IN  Slice(text, i, k - 1) \o to
                 \o replaceIgnoringCase(text, lower, k + Len(from), from, to, bounded)

\* pairs of << from, to >> with from in lower case, applied in order
RECURSIVE replaceEach(_, _, _)
replaceEach(text, pairs, bounded) ==
  IF pairs = << >> THEN text
  ELSE replaceEach(replaceIgnoringCase(text, toLowerCase(text), 1,
                                       pairs[1][1], pairs[1][2], bounded),
                   Tail(pairs), bounded)

translateWords(text, fromLang, toLang) ==
  LET translations == commonTranslations(fromLang \o "_to_" \o toLang)
  IN  IF IsNull(translations) THEN text
      ELSE replaceEach(toLowerCase(text), Get(translations), TRUE)

tonePatterns ==
  << [ tone |-> "polite", patterns |-> {"please", "kindly", "if possible", "kripaya", "dayavittu"} ],
     [ tone |-> "urgent", patterns |-> {"quickly", "fast", "immediately", "jaldi", "bega"} ],
     [ tone |-> "respectful", patterns |-> {"sir", "madam", "sahab", "amma", "ayya"} ],
     [ tone |-> "friendly", patterns |-> {"brother", "sister", "bhai", "didi", "anna", "akka"} ] >>

toneMarkers(language, tone) ==
  CASE language = "english" ->
         Some(CASE tone = "polite" -> "please " [] tone = "urgent" -> "quickly "
                [] tone = "respectful" -> "sir/madam " [] OTHER -> "friend ")
    [] language = "hindi" ->
         Some(CASE tone = "polite" -> "kripaya " [] tone = "urgent" -> "jaldi "
                [] tone = "respectful" -> "sahab " [] OTHER -> "bhai ")
    [] language = "kannada" ->
         Some(CASE tone = "polite" -> "dayavittu " [] tone = "urgent" -> "bega "
                [] tone = "respectful" -> "ayya " [] OTHER -> "anna ")
    [] OTHER -> None

addToneMarkers(text, tone, language) ==
  LET marker == toneMarkers(language, tone)
  IN  IF ~IsNull(marker) /\ ~Includes(text, trim(Get(marker)))
        THEN Get(marker) \o text ELSE text

\* the markers are idempotent, so one application per tone whose pattern occurs
RECURSIVE preserveTones(_, _, _, _)
preserveTones(text, originalLower, language, tones) ==
  IF tones = << >> THEN text
  ELSE preserveTones(
         IF \E pat \in tones[1].patterns : Includes(originalLower, pat)
           THEN addToneMarkers(text, tones[1].tone, language) ELSE text,
         originalLower, language, Tail(tones))

preserveNegotiationTone(translatedText, originalText, targetLanguage) ==
  preserveTones(translatedText, toLowerCase(originalText), targetLanguage, tonePatterns)

\* tradePhrasesTemplates holds fixed sentences ("{product} ka daam kya hai?", ...);
\* no modelled utterance matches one of them, so the template path yields null
translateUsingTemplates(text, fromLang, toLang, intent) == None

\* variant: translate without the early return on equal languages
translateWithoutShortcut(text, fromLanguage, toLanguage, intent) ==
  LET fromLang == normalizeLanguageCode(fromLanguage)
      toLang == normalizeLanguageCode(toLanguage)
      templateTranslation == translateUsingTemplates(text, fromLang, toLang, intent)
      wordTranslation == translateWords(text, fromLang, toLang)
      tonePreserved == preserveNegotiationTone(wordTranslation, text, toLang)
  IN  IF ~IsNull(templateTranslation) THEN Get(templateTranslation)
      ELSE IF tonePreserved = "" THEN text ELSE tonePreserved

translate(text, fromLanguage, toLanguage, intent) ==
  IF fromLanguage = toLanguage THEN text
  ELSE LET fromLang == normalizeLanguageCode(fromLanguage)
           toLang == normalizeLanguageCode(toLanguage)
           templateTranslation == translateUsingTemplates(text, fromLang, toLang, intent)
           wordTranslation == translateWords(text, fromLang, toLang)
           tonePreserved == preserveNegotiationTone(wordTranslation, text, toLang)
       IN  IF ~IsNull(templateTranslation) THEN Get(templateTranslation)
           ELSE IF tonePreserved = "" THEN text ELSE tonePreserved

(***************************************************************************)
(* PriceDiscoveryEngine.  The dataset file mock_data/prices.json is read   *)
(* at start-up by loadPriceData; a sample in the documented format         *)
(* {product -> {marketPrice, minPrice, maxPrice, unit, bulkThreshold,      *)
(* bulkDiscount, category}} with a category table stands for it.  Until   *)
(* the file has been loaded (and for good if loading fails) the tables of  *)
(* the engine are empty.                                                   *)
(***************************************************************************)
productsDataset ==
  << [ name |-> "rice", marketPrice |-> 40, minPrice |-> 35, maxPrice |-> 50,
       unit |-> "kg", category |-> "grains" ],
     [ name |-> "tomato", marketPrice |-> 30, minPrice |-> 25, maxPrice |-> 40,
       unit |-> "kg", category |-> "vegetables" ] >>

categoriesDataset ==
  << [ name |-> "grains", averagePrice |-> 45 ],
     [ name |-> "vegetables", averagePrice |-> 30 ] >>

\* this.priceData and this.categories of the engine
enginePriceData(isDataLoaded) == IF isDataLoaded THEN productsDataset ELSE << >>
engineCategories(isDataLoaded) == IF isDataLoaded THEN categoriesDataset ELSE << >>

\* table[key], null when the key is absent
Lookup(table, key) ==
  LET found == SelectSeq(table, LAMBDA e : e.name = key)
  IN  IF found = << >> THEN None ELSE Some(found[1])

\* Math.round(p * num / den) for p, num, den >= 0
RoundMul(p, num, den) == (2 * p * num + den) \div (2 * den)

\* replace(/[^a-z]/g, '')
RECURSIVE lettersRange(_, _, _)
lettersRange(s, a, b) ==
  IF a > b THEN ""
  ELSE IF a = b
    THEN (IF Char(s, a) \in LowerSet THEN Char(s, a) ELSE "")
  ELSE lettersRange(s, a, (a + b) \div 2) \o lettersRange(s, (a + b) \div 2 + 1, b)

normalizeProductName(product) ==
  IF IsNull(product) \/ product = Some("") \/ product = Some("unknown") THEN None
  ELSE LET lower == toLowerCase(Get(product))
           singular == IF Char(lower, Len(lower)) = "s"
                         THEN Slice(lower, 1, Len(lower) - 1) ELSE lower
       IN  Some(lettersRange(singular, 1, Len(singular)))

\* the category keywords step finds nothing: the sample's categories list none
findProductByFuzzyMatch(searchProduct, priceData) ==
  IF IsNull(searchProduct) \/ searchProduct = Some("") THEN None
  ELSE LET partial == SelectSeq(priceData, LAMBDA e :
                        Includes(e.name, Get(searchProduct)) \/ Includes(Get(searchProduct), e.name))
       IN  IF ~IsNull(Lookup(priceData, Get(searchProduct)))
             THEN Lookup(priceData, Get(searchProduct))
           ELSE IF partial # << >> THEN Some(partial[1])
           ELSE None

getCategoryDefaults(category, categories) ==
  LET categoryData == Lookup(categories, category)
  IN  IF IsNull(categoryData) THEN None
      ELSE Some([ name |-> "", category |-> category,
                  marketPrice |-> Get(categoryData).averagePrice,
                  minPrice |-> RoundMul(Get(categoryData).averagePrice, 85, 100),
                  maxPrice |-> RoundMul(Get(categoryData).averagePrice, 115, 100),
                  unit |-> "kg", source |-> "category_default", confidence |-> 500 ])

\* maxDiscount 0.15 (the sample carries no negotiationRules), minMargin 0.05
calculateNegotiationRange(basePrice) ==
  [ absoluteMinimum |-> RoundMul(basePrice, 85, 100),
    safeMinimum |-> RoundMul(basePrice, 90, 100),
    marketPrice |-> basePrice,
    premiumPrice |-> RoundMul(basePrice, 110, 100),
    recommendedStart |-> RoundMul(basePrice, 110, 100) ]

\* Math.random() is rand/1000, rand in 0..999; seasonalVariation is 0.1 (no
\* category of the sample sets one).  variation = (random - 0.5) * 0.1, so
\* 1 + variation = (9500 + rand) / 10000.
applyMarketVariations(productData, rand) ==
  [ marketPrice |-> RoundMul(productData.marketPrice, 9500 + rand, 10000),
    minPrice |-> RoundMul(productData.minPrice, 9500 + rand, 10000),
    maxPrice |-> RoundMul(productData.maxPrice, 9500 + rand, 10000) ]

\* product and category are None when the caller passes null or undefined
getMarketPrice(product, category, rand, isDataLoaded) ==
  LET priceData == enginePriceData(isDataLoaded)
      normalizedProduct == normalizeProductName(product)
      direct == Lookup(priceData, IF IsNull(normalizedProduct) THEN "null"
                                  ELSE Get(normalizedProduct))
      fuzzy == IF IsNull(direct) THEN findProductByFuzzyMatch(normalizedProduct, priceData)
               ELSE direct
      productData ==
        IF IsNull(fuzzy) /\ ~IsNull(category) /\ category \notin {Some(""), Some("general")}
          THEN getCategoryDefaults(Get(category), engineCategories(isDataLoaded))
          ELSE fuzzy
  IN  IF IsNull(productData) THEN None
      ELSE LET d == Get(productData)
               adjustedPrices == applyMarketVariations(d, rand)
           IN  Some([ product |-> normalizedProduct,
                      category |-> IF ~IsNull(category) /\ category # Some("")
                                     THEN Get(category) ELSE d.category,
                      marketPrice |-> Some(adjustedPrices.marketPrice),
                      minPrice |-> Some(adjustedPrices.minPrice),
                      maxPrice |-> Some(adjustedPrices.maxPrice),
                      unit |-> d.unit,
                      negotiationRange |-> Some(calculateNegotiationRange(d.marketPrice)),
                      ranges |-> None,
                      negotiation |-> None,
                      confidence |-> IF d.name = "" THEN d.confidence ELSE 800,
                      source |-> IF d.name = "" THEN d.source ELSE "static_data",
                      fallback |-> FALSE ])

\* LinguisticBridge.createFallbackPriceData
createFallbackPriceData(product) ==
  [ product |-> IF product = "" THEN Some("unknown") ELSE Some(product),
    category |-> "general",
    marketPrice |-> None, minPrice |-> None, maxPrice |-> None,
    unit |-> "kg", negotiationRange |-> None, ranges |-> None, negotiation |-> None,
    confidence |-> 100, source |-> "", fallback |-> TRUE ]

\* the complete quote: price boundaries and negotiation block present
generateFallbackPriceRange(product, category) ==
  LET base == CASE category = "grains" -> [ base |-> 40, min |-> 35 ]
                [] category = "vegetables" -> [ base |-> 30, min |-> 25 ]
                [] category = "fruits" -> [ base |-> 80, min |-> 60 ]
                [] category = "dairy" -> [ base |-> 55, min |-> 45 ]
                [] category = "meat" -> [ base |-> 200, min |-> 180 ]
                [] category = "cooking" -> [ base |-> 100, min |-> 90 ]
                [] OTHER -> [ base |-> 50, min |-> 40 ]
  IN  [ product |-> IF product = "" THEN Some("unknown") ELSE Some(product),
        category |-> IF category = "" THEN "general" ELSE category,
        marketPrice |-> None, minPrice |-> None, maxPrice |-> None,
        unit |-> "kg", negotiationRange |-> None,
        ranges |-> Some([ minimum |-> base.min,
                          safe |-> RoundMul(base.base, 90, 100),
                          market |-> base.base,
                          premium |-> RoundMul(base.base, 110, 100),
                          recommended |-> RoundMul(base.base, 110, 100) ]),
        negotiation |-> Some([ flexibility |-> "moderate" ]),
        confidence |-> 300, source |-> "fallback_estimate", fallback |-> FALSE ]

(***************************************************************************)
(* NegotiationAssistant.  culturalPatterns.respectful.phrases is the one   *)
(* table of the assistant that its methods write, so it is state; a method *)
(* that can write it returns the table along with its value.  A call that  *)
(* ends by throwing has threw = TRUE and no value.                         *)
(***************************************************************************)
InitialPhrases ==
  << "I appreciate your interest", "Thank you for considering",
     "I understand your position" >>

Returned(v, table) == [ threw |-> FALSE, value |-> Some(v), phrases |-> table ]
Thrown(table) == [ threw |-> TRUE, value |-> None, phrases |-> table ]

analyzeCustomerBehavior(text, intent) ==
  LET lowerText == toLowerCase(text)
      Has(w) == Includes(lowerText, w)
      bulkBuyer == ~IsNull(intent.quantity) /\ Get(intent.quantity).amount > 5
  IN  [ priceAwareness |->
          IF Has("expensive") \/ Has("costly") \/ Has("mehenga") THEN "high"
          ELSE IF Has("fair") \/ Has("reasonable") \/ Has("accha") THEN "moderate"
          ELSE "unknown",
        urgency |->
          IF Has("quickly") \/ Has("urgent") \/ Has("jaldi") THEN "high"
          ELSE IF Has("thinking") \/ Has("consider") \/ Has("sochna") THEN "low"
          ELSE "normal",
        flexibility |->
          IF bulkBuyer THEN "high"
          ELSE IF Has("budget") \/ Has("afford") \/ Has("paisa") THEN "low"
          ELSE IF Has("quality") \/ Has("best") \/ Has("accha") THEN "high"
          ELSE "moderate" ]

\* reduction of each offer level in hundredths
\* variant: the final offer reduces less than the second
counterOfferRulesOutOfOrder ==
  << [ level |-> "first_offer", reduction |-> 5,
       message |-> "Let me see what I can do for you" ],
     [ level |-> "second_offer", reduction |-> 12,
       message |-> "This is getting close to my best price" ],
     [ level |-> "final_offer", reduction |-> 8,
       message |-> "This is my final offer" ] >>

counterOfferRules ==
  << [ level |-> "first_offer", reduction |-> 5,
       message |-> "Let me see what I can do for you" ],
     [ level |-> "second_offer", reduction |-> 8,
       message |-> "This is getting close to my best price" ],
     [ level |-> "final_offer", reduction |-> 12,
       message |-> "This is my final offer" ] >>

\* variant: every offer marked recommended
generateCounterOffersAllRecommended(priceData, intent, customerAnalysis) ==
  LET ranges == Get(priceData.ranges)
      startingPrice == IF customerAnalysis.priceAwareness = "high"
                         THEN ranges.market ELSE ranges.recommended
  IN  [ index \in 1..Len(counterOfferRules) |->
          LET rule == counterOfferRules[index]
              finalPrice == Max(RoundMul(startingPrice, 100 - rule.reduction, 100),
                                ranges.safe)
          IN  [ level |-> rule.level,
                price |-> Some(finalPrice),
                discount |-> RoundMul(startingPrice - finalPrice, 100, startingPrice),
                message |-> rule.message,
                recommended |-> TRUE ] ]

\* variant: the discounted price offered as it is, not raised to the safe minimum
generateCounterOffersUnclamped(priceData, intent, customerAnalysis) ==
  LET ranges == Get(priceData.ranges)
      startingPrice == IF customerAnalysis.priceAwareness = "high"
                         THEN ranges.market ELSE ranges.recommended
  IN  [ index \in 1..Len(counterOfferRules) |->
          LET rule == counterOfferRules[index]
              finalPrice == RoundMul(startingPrice, 100 - rule.reduction, 100)
          IN  [ level |-> rule.level,
                price |-> Some(finalPrice),
                discount |-> RoundMul(startingPrice - finalPrice, 100, startingPrice),
                message |-> rule.message,
                recommended |-> index = 1 ] ]

\* defined for a quote that has ranges and negotiation; the caller checks
generateCounterOffers(priceData, intent, customerAnalysis) ==
  LET ranges == Get(priceData.ranges)
      startingPrice == IF customerAnalysis.priceAwareness = "high"
                         THEN ranges.market ELSE ranges.recommended
  IN  [ index \in 1..Len(counterOfferRules) |->
          LET rule == counterOfferRules[index]
              discountedPrice == RoundMul(startingPrice, 100 - rule.reduction, 100)
              finalPrice == Max(discountedPrice, ranges.safe)
          IN  [ level |-> rule.level,
                price |-> Some(finalPrice),
                discount |-> RoundMul(startingPrice - finalPrice, 100, startingPrice),
                message |-> rule.message,
                recommended |-> index = 1 ] ]

\* confidence in thousandths
calculateGuidanceConfidence(priceData, intent) ==
  Min(700 + (IF priceData.confidence > 800 THEN 100 ELSE 0)
          + (IF intent.confidence > 800 THEN 100 ELSE 0)
          - (IF priceData.product = Some("unknown") THEN 200 ELSE 0),
      950)

\* the context's phrases is the table itself, not a copy: the push writes the table
getCulturalContext(intent, table) ==
  LET pushed ==
        CASE intent.type = "bargaining" ->
               [ approach |-> "respectful",
                 customary |-> << "Bargaining is expected and normal",
                                  "Start higher to allow negotiation room" >>,
                 phrase |-> << "This is a fair starting price" >> ]
          [] intent.type = "bulk_purchase" ->
               [ approach |-> "business_friendly",
                 customary |-> << "Volume buyers deserve special consideration",
                                  "Build long-term business relationships" >>,
                 phrase |-> << "For bulk orders, I can offer better rates" >> ]
          [] intent.type = "casual_inquiry" ->
               [ approach |-> "informational",
                 customary |-> << "Provide clear, honest information",
                                  "No pressure to buy immediately" >>,
                 phrase |-> << "Let me explain our pricing clearly" >> ]
          [] OTHER -> [ approach |-> "respectful", customary |-> << >>, phrase |-> << >> ]
  IN  [ approach |-> pushed.approach,
        tone |-> "polite",
        phrases |-> table \o pushed.phrase,
        customary |-> << "Allow time for customer consideration",
                         "Maintain respectful dialogue",
                         "Avoid aggressive pressure tactics" >> \o pushed.customary ]

\* intent is None when the caller passes null: intent.type then throws
generateFallbackGuidance(intent, table) ==
  IF IsNull(intent) THEN Thrown(table)
  ELSE LET culturalContext == getCulturalContext(Get(intent), table)
       IN  Returned([ customerAnalysis |-> [ priceAwareness |-> "unknown",
                                             urgency |-> "normal",
                                             flexibility |-> "moderate" ],
                      counterOffers |-> << [ level |-> "standard", price |-> None,
                                             discount |-> 0,
                                             message |-> "Let me check the current market price for you",
                                             recommended |-> TRUE ] >>,
                      confidence |-> 300,
                      culturalContext |-> Some(culturalContext),
                      fallback |-> TRUE ],
                    culturalContext.phrases)

\* the body of the try block: throws (threw = TRUE) where the source dereferences
\* a field the argument lacks
guidanceBody(intent, priceData, originalText, table) ==
  IF IsNull(priceData) THEN generateFallbackGuidance(intent, table)
  ELSE IF IsNull(intent) THEN Thrown(table)
  ELSE IF IsNull(Get(priceData).ranges) \/ IsNull(Get(priceData).negotiation)
         THEN Thrown(table)
  ELSE LET customerAnalysis == analyzeCustomerBehavior(originalText, Get(intent))
           culturalContext == getCulturalContext(Get(intent), table)
       IN  Returned([ customerAnalysis |-> customerAnalysis,
                      counterOffers |-> generateCounterOffers(Get(priceData), Get(intent),
                                                              customerAnalysis),
                      confidence |-> calculateGuidanceConfidence(Get(priceData), Get(intent)),
                      culturalContext |-> Some(culturalContext),
                      fallback |-> FALSE ],
                    culturalContext.phrases)

\* variant: the body with no try/catch around it
generateGuidanceUncaught(intent, priceData, originalText, table) ==
  guidanceBody(intent, priceData, originalText, table)

\* try { body } catch { return generateFallbackGuidance(...) }
generateGuidance(intent, priceData, originalText, table) ==
  LET body == guidanceBody(intent, priceData, originalText, table)
  IN  IF body.threw THEN generateFallbackGuidance(intent, body.phrases) ELSE body

\* LinguisticBridge.createFallbackNegotiationGuidance
createFallbackNegotiationGuidance ==
  [ customerAnalysis |-> [ priceAwareness |-> "unknown", urgency |-> "normal",
                           flexibility |-> "moderate" ],
    counterOffers |-> << >>,
    confidence |-> 200,
    culturalContext |-> None,
    fallback |-> TRUE ]

(***************************************************************************)
(* ResponseGenerator.  The rupee sign of the templates (U+20B9, one        *)
(* character, neither a letter nor a digit) is written "#".                *)
(***************************************************************************)
MaxDisplayLength == 300

responseTemplates(language) ==
  CASE language = "hindi" ->
         [ with_price |-> "Bazaar ke hisaab se, {product} ka daam #{price} per {unit} hai. {guidance}",
           price_range |-> "{product} ke liye bazaar mein #{minPrice} se #{maxPrice} per {unit} tak milta hai. {guidance}",
           no_price |-> "Mujhe {product} ka current rate nahi pata, lekin main aapko general guidance de sakta hun. {guidance}",
           counter_offer |-> "#{price} per {unit} offer kar sakte hain. {reasoning}",
           respectful |-> "Negotiation mein respect aur patience rakhiye.",
           flexible |-> "Is product mein negotiation ki gunjaish hai.",
           firm |-> "Apna price maintain kariye - yeh already fair deal hai." ]
    [] language = "kannada" ->
         [ with_price |-> "Market nalli, {product} bele #{price} per {unit} ide. {guidance}",
           price_range |-> "{product} ge market nalli #{minPrice} to #{maxPrice} per {unit} sigutta. {guidance}",
           no_price |-> "Nanage {product} current rate gottilla, aadre general guidance kodabaudu. {guidance}",
           counter_offer |-> "#{price} per {unit} offer maadabaudu. {reasoning}",
           respectful |-> "Negotiation nalli respect mattu patience iddkoli.",
           flexible |-> "Ee product nalli negotiation maadabaudu.",
           firm |-> "Nimma price maintain maadi - idu already fair deal." ]
    [] OTHER ->
         [ with_price |-> "Based on current market conditions, {product} is priced at #{price} per {unit}. {guidance}",
           price_range |-> "For {product}, the market range is #{minPrice} to #{maxPrice} per {unit}. {guidance}",
           no_price |-> "I don't have current pricing for {product}, but I can help you with general guidance. {guidance}",
           counter_offer |-> "Consider offering #{price} per {unit}. {reasoning}",
           respectful |-> "Remember to be respectful and patient during negotiations.",
           flexible |-> "You have room for negotiation with this product.",
           firm |-> "Maintain your price - this is already a fair deal." ]

\* a template variable as the text String.replace inserts: value || ''
TextOf(optionalString) == IF IsNull(optionalString) THEN "" ELSE Get(optionalString)
NumberText(optionalNumber) ==
  IF IsNull(optionalNumber) \/ optionalNumber = Some(0) THEN ""
  ELSE ToString(Get(optionalNumber))

\* replace(new RegExp(from, 'g'), to) for a literal from
RECURSIVE replaceAll(_, _, _, _)
replaceAll(text, i, from, to) ==
  LET hits == { k \in i..Len(text) : Slice(text, k, k + Len(from) - 1) = from }
  IN  IF hits = {} THEN Slice(text, i, Len(text))
      ELSE LET k == CHOOSE h \in hits : \A m \in hits : h <= m
           IN  Slice(text, i, k - 1) \o to \o replaceAll(text, k + Len(from), from, to)

\* replace(/\{[^}]+\}/g, ''): an opening brace up to the next closing brace, with
\* at least one character between them
RECURSIVE removePlaceholders(_, _)
removePlaceholders(text, i) ==
  LET Close(k) == { c \in (k + 2)..Len(text) :
                      Char(text, c) = "}" /\ \A m \in (k + 1)..(c - 1) : Char(text, m) # "}" }
      hits == { k \in i..Len(text) : Char(text, k) = "{" /\ Close(k) # {} }
  IN  IF hits = {} THEN Slice(text, i, Len(text))
      ELSE LET k == CHOOSE h \in hits : \A m \in hits : h <= m
               c == CHOOSE x \in Close(k) : TRUE
           IN  Slice(text, i, k - 1) \o removePlaceholders(text, c + 1)

RECURSIVE fillKeys(_, _)
fillKeys(text, variables) ==
  IF variables = << >> THEN text
  ELSE fillKeys(replaceAll(text, 1, "{" \o variables[1][1] \o "}", variables[1][2]),
                Tail(variables))

\* variables: pairs << key, text of the value >> in the order of the object's keys
fillTemplate(template, variables) ==
  trim(collapseSpaces(removePlaceholders(fillKeys(template, variables), 1)))

generatePriceGuidance(priceData, language) ==
  LET flexibility == IF IsNull(priceData.negotiation) THEN "moderate"
                     ELSE Get(priceData.negotiation).flexibility
      templates == responseTemplates(language)
  IN  CASE flexibility = "high" -> templates.flexible
        [] flexibility = "low" -> templates.firm
        [] OTHER -> templates.respectful

\* defined when intent is not null or priceData is not null; the caller checks
generatePrimaryResponse(intent, priceData, language) ==
  LET templates == responseTemplates(language)
  IN  IF IsNull(priceData)
        THEN fillTemplate(templates.no_price,
               << << "product", IF Get(intent).product = "" THEN "this item"
                                ELSE Get(intent).product >>,
                  << "guidance", "Let me help you with what I can." >> >>)
      ELSE IF ~IsNull(Get(priceData).ranges)
        THEN fillTemplate(templates.price_range,
               << << "product", TextOf(Get(priceData).product) >>,
                  << "minPrice", NumberText(Some(Get(Get(priceData).ranges).minimum)) >>,
                  << "maxPrice", NumberText(Some(Get(Get(priceData).ranges).premium)) >>,
                  << "unit", Get(priceData).unit >>,
                  << "guidance", generatePriceGuidance(Get(priceData), language) >> >>)
      ELSE fillTemplate(templates.with_price,
               << << "product", TextOf(Get(priceData).product) >>,
                  << "price", NumberText(Get(priceData).marketPrice) >>,
                  << "unit", Get(priceData).unit >>,
                  << "guidance", generatePriceGuidance(Get(priceData), language) >> >>)

generateNegotiationResponse(negotiationGuidance, language) ==
  LET recommended == SelectSeq(negotiationGuidance.counterOffers, LAMBDA o : o.recommended)
  IN  IF recommended # << >> /\ NumberText(recommended[1].price) # ""
        THEN fillTemplate(responseTemplates(language).counter_offer,
               << << "price", NumberText(recommended[1].price) >>,
                  << "unit", "kg" >>,
                  << "reasoning", recommended[1].message >> >>)
        ELSE ""

translateCulturalGuidance(guidance, language) ==
  LET translations ==
        CASE language = "hindi" ->
               << "Customer ko sochne ka time dijiye.",
                  "Baat-cheet mein respect rakhiye.",
                  "Customer par zyada pressure na daliye." >>
          [] language = "kannada" ->
               << "Customer ge aalochane maadakke time kodi.",
                  "Maatanaaduvaga respect iddkoli.",
                  "Customer mele jaasti pressure haakbeda." >>
          [] OTHER ->
               << "Give the customer time to think.",
                  "Keep the conversation respectful.",
                  "Don't pressure the customer too much." >>
  IN  CASE guidance = "Allow time for customer consideration" -> translations[1]
        [] guidance = "Maintain respectful dialogue" -> translations[2]
        [] guidance = "Avoid aggressive pressure tactics" -> translations[3]
        [] OTHER -> guidance

generateCulturalResponse(culturalContext, language) ==
  IF IsNull(culturalContext) THEN ""
  ELSE translateCulturalGuidance(
         IF Get(culturalContext).customary = << >> THEN "Be respectful in your negotiations."
         ELSE Get(culturalContext).customary[1],
         language)

RECURSIVE Join(_, _)
Join(parts, connector) ==
  IF parts = << >> THEN ""
  ELSE IF Len(parts) = 1 THEN parts[1]
  ELSE parts[1] \o connector \o Join(Tail(parts), connector)

combineResponses(responses) ==
  Join(SelectSeq(responses, LAMBDA r : trim(r) # ""), ". ")

\* text.split(separator)
RECURSIVE Split(_, _)
Split(text, separator) ==
  LET hits == { k \in 1..Len(text) : Slice(text, k, k + Len(separator) - 1) = separator }
  IN  IF hits = {} THEN << text >>
      ELSE LET k == CHOOSE h \in hits : \A m \in hits : h <= m
           IN  << Slice(text, 1, k - 1) >>
                 \o Split(Slice(text, k + Len(separator), Len(text)), separator)

\* the loop over the sentences: stops at the first one that does not fit
RECURSIVE takeSentences(_, _)
takeSentences(truncated, sentences) ==
  IF sentences = << >> THEN truncated
  ELSE IF Len(truncated \o sentences[1] \o ". ") <= MaxDisplayLength
    THEN takeSentences(truncated \o sentences[1] \o ". ", Tail(sentences))
    ELSE truncated

formatForDisplay(text) ==
  IF Len(text) <= MaxDisplayLength THEN text
  ELSE LET truncated == trim(takeSentences("", Split(text, ". ")))
       IN  IF truncated # "" THEN truncated
           ELSE Slice(text, 1, MaxDisplayLength - 3) \o "..."

\* variant: the English message whatever the language
createFallbackResponseEnglish(data, language) ==
  [ text |-> "I'm here to help with your pricing questions. Please try asking again.",
    language |-> normalizeLanguageCode(language),
    actionable |-> FALSE,
    fallback |-> TRUE,
    intent |-> IF IsNull(data) \/ IsNull(Get(data).intent) THEN "unknown"
               ELSE Get(Get(data).intent).type,
    confidence |-> 300,
    hasPrice |-> FALSE,
    culturallyFiltered |-> FALSE ]

\* ResponseGenerator.createFallbackResponse; data is None when the caller passes
\* null, as are its members
createFallbackResponse(data, language) ==
  LET responseLanguage == normalizeLanguageCode(language)
  IN  [ text |-> CASE responseLanguage = "hindi" ->
                        "Main aapke price ke sawal mein madad kar sakta hun. Phir se puchiye."
                   [] responseLanguage = "kannada" ->
                        "Naanu nimma price questions nalli help maadabaudu. Mathe keli."
                   [] OTHER ->
                        "I'm here to help with your pricing questions. Please try asking again.",
        language |-> responseLanguage,
        actionable |-> FALSE,
        fallback |-> TRUE,
        intent |-> IF IsNull(data) \/ IsNull(Get(data).intent) THEN "unknown"
                   ELSE Get(Get(data).intent).type,
        confidence |-> 300,
        hasPrice |-> FALSE,
        culturallyFiltered |-> FALSE ]

\* variant: the body of formatResponse with no default language, so that a tag
\* without a bundle finds no templates and the body throws
responseBodyWithoutDefault(data, language) ==
  IF \/ IsNull(data) \/ IsNull(Get(data).intent) \/ IsNull(Get(data).negotiationGuidance)
     \/ language \notin {"en-US", "hi-IN", "kn-IN", "english", "hindi", "kannada"}
    THEN [ threw |-> TRUE, value |-> None ]
  ELSE LET d == Get(data)
           responseLanguage == normalizeLanguageCode(language)
           primaryResponse == generatePrimaryResponse(d.intent, d.priceData, responseLanguage)
           negotiationResponse ==
             generateNegotiationResponse(Get(d.negotiationGuidance), responseLanguage)
           culturalResponse ==
             generateCulturalResponse(Get(d.negotiationGuidance).culturalContext,
                                      responseLanguage)
           combinedResponse ==
             combineResponses(<< primaryResponse, negotiationResponse, culturalResponse >>)
       IN  [ threw |-> FALSE,
             value |-> Some([ text |-> formatForDisplay(combinedResponse),
                              language |-> responseLanguage,
                              actionable |-> TRUE,
                              fallback |-> FALSE,
                              intent |-> Get(d.intent).type,
                              confidence |-> Get(d.negotiationGuidance).confidence,
                              hasPrice |-> ~IsNull(d.priceData),
                              culturallyFiltered |-> FALSE ]) ]

\* the body of the try block of formatResponse: it throws when data, the intent or
\* the guidance is null, the members it dereferences
responseBody(data, language) ==
  IF IsNull(data) \/ IsNull(Get(data).intent) \/ IsNull(Get(data).negotiationGuidance)
    THEN [ threw |-> TRUE, value |-> None ]
  ELSE LET d == Get(data)
           responseLanguage == normalizeLanguageCode(language)
           primaryResponse == generatePrimaryResponse(d.intent, d.priceData, responseLanguage)
           negotiationResponse ==
             generateNegotiationResponse(Get(d.negotiationGuidance), responseLanguage)
           culturalResponse ==
             generateCulturalResponse(Get(d.negotiationGuidance).culturalContext,
                                      responseLanguage)
           combinedResponse ==
             combineResponses(<< primaryResponse, negotiationResponse, culturalResponse >>)
       IN  [ threw |-> FALSE,
             value |-> Some([ text |-> formatForDisplay(combinedResponse),
                              language |-> responseLanguage,
                              actionable |-> TRUE,
                              fallback |-> FALSE,
                              intent |-> Get(d.intent).type,
                              confidence |-> Get(d.negotiationGuidance).confidence,
                              hasPrice |-> ~IsNull(d.priceData),
                              culturallyFiltered |-> FALSE ]) ]

\* try { body } catch { return createFallbackResponse(data, language, error) }
formatResponse(data, language) ==
  LET body == responseBody(data, language)
  IN  IF body.threw THEN createFallbackResponse(data, language) ELSE Get(body.value)

\* LinguisticBridge.createFallbackResponse, keyed by the selector value
createPipelineFallbackResponse(language) ==
  [ text |-> CASE language = "hi-IN" ->
                    "Mujhe aapka request process karne mein dikkat ho rahi hai. Phir se try kariye ya price ke baare mein simple sawal puchiye."
               [] language = "kn-IN" ->
                    "Nanage nimma request process maadakke kashta aaguttide. Mathe try maadi athava price bagge simple question keli."
               [] OTHER ->
                    "I'm having trouble processing your request right now. Please try again, or ask me a simpler question about pricing.",
    language |-> getLanguageCode(language),
    actionable |-> FALSE,
    fallback |-> TRUE,
    intent |-> "unknown",
    confidence |-> 0,
    hasPrice |-> FALSE,
    culturallyFiltered |-> FALSE ]

(***************************************************************************)
(* CulturalContextManager.filterResponse, which the constructor wraps      *)
(* around displayResponse.                                                 *)
(***************************************************************************)
enhancePoliteness(text, language) ==
  LET enhancements ==
        CASE language = "hindi" ->
               [ prefix |-> "Kripaya dhyan dijiye ki ",
                 suffix |-> ". Aapki samajh ke liye dhanyawad." ]
          [] language = "kannada" ->
               [ prefix |-> "Dayavittu tilkoli ",
                 suffix |-> ". Nimma tiluvlike dhanyavaadagalu." ]
          [] OTHER ->
               [ prefix |-> "Please consider that ",
                 suffix |-> ". Thank you for your understanding." ]
  IN  IF ~Includes(text, "Please") /\ ~Includes(text, "Kripaya") /\ ~Includes(text, "Dayavittu")
        THEN enhancements.prefix \o toLowerCase(text) \o enhancements.suffix
        ELSE text

softenDirectness(text, language) ==
  replaceEach(text,
    CASE language = "hindi" ->
           << << "aapko chahiye", "Aap soch sakte hain" >>,
              << "aapko karna chahiye", "Accha hoga agar aap" >> >>
      [] language = "kannada" ->
           << << "neevu maadabeku", "Neevu maadbahudu" >>,
              << "neevu maadi", "Neevu maadbahudu" >> >>
      [] OTHER ->
           << << "you should", "You might consider" >>,
              << "you must", "It would be good if you" >>,
              << "do this", "Perhaps you could" >> >>,
    FALSE)

increaseFormality(text, language) ==
  replaceEach(text,
    CASE language = "hindi" ->
           << << "accha", "Bahut accha" >>, << "theek hai", "Bilkul theek hai" >> >>
      [] language = "kannada" ->
           << << "sari", "Tumba chennaagide" >>, << "olledu", "Tumba olledu" >> >>
      [] OTHER ->
           << << "hi", "Good day" >>, << "thanks", "Thank you" >>, << "ok", "Very well" >> >>,
    TRUE)

\* communicationPatterns: hindi and kannada have politeness very_high, directness
\* low and formality high; english has high, moderate and medium
filterResponse(response, language) ==
  IF response.text = "" THEN response
  ELSE LET langCode == normalizeLanguageCode(language)
           styled == langCode \in {"hindi", "kannada"}
           polite == IF styled THEN enhancePoliteness(response.text, langCode)
                     ELSE response.text
           soft == IF styled THEN softenDirectness(polite, langCode) ELSE polite
           formal == IF styled THEN increaseFormality(soft, langCode) ELSE soft
       IN  [ response EXCEPT !.text = formal, !.culturallyFiltered = TRUE ]

(***************************************************************************)
(* LinguisticBridge.processVoiceInput: the five stages, each inside its    *)
(* own try/catch.  raise = TRUE stands for the stage's call throwing; a    *)
(* stage yields threw = FALSE because its catch substitutes the fallback.  *)
(***************************************************************************)
createFallbackIntent(text) ==
  [ type |-> "casual_inquiry", confidence |-> 300, keywords |-> << >>,
    product |-> "unknown", category |-> "general", quantity |-> None,
    language |-> "", originalText |-> Some(text), fallback |-> TRUE, error |-> FALSE ]

classifyStage(text, currentLanguage, raise) ==
  [ threw |-> FALSE,
    value |-> IF raise THEN createFallbackIntent(text)
              ELSE classifyIntent(Some(text), getLanguageCode(currentLanguage)) ]

translateStage(text, currentLanguage, intent, raise) ==
  [ threw |-> FALSE,
    value |-> IF currentLanguage = "en-US" \/ raise THEN text
              ELSE translate(text, getLanguageCode(currentLanguage), "english", intent) ]

quoteStage(intent, rand, isDataLoaded, raise) ==
  [ threw |-> FALSE,
    value |-> IF intent.type \notin {"bargaining", "bulk_purchase"} THEN None
              ELSE IF raise THEN Some(createFallbackPriceData(intent.product))
              ELSE getMarketPrice(Some(intent.product), Some(intent.category),
                                  rand, isDataLoaded) ]

\* variant: the guidance stage with no try/catch around the call
guideStageUncaught(intent, priceData, processedText, table, raise) ==
  IF raise THEN Thrown(table)
  ELSE generateGuidance(Some(intent), priceData, processedText, table)

guideStage(intent, priceData, processedText, table, raise) ==
  LET call == IF raise THEN Thrown(table)
              ELSE generateGuidance(Some(intent), priceData, processedText, table)
  IN  IF call.threw THEN Returned(createFallbackNegotiationGuidance, call.phrases)
      ELSE call

renderStage(intent, priceData, negotiationGuidance, currentLanguage, raise) ==
  [ threw |-> FALSE,
    value |-> IF raise THEN createPipelineFallbackResponse(currentLanguage)
              ELSE formatResponse(Some([ intent |-> Some(intent),
                                         priceData |-> priceData,
                                         negotiationGuidance |-> Some(negotiationGuidance) ]),
                                  getLanguageCode(currentLanguage)) ]

(***************************************************************************)
(* State.                                                                  *)
(***************************************************************************)
VARIABLES
  currentLanguage,     \* LinguisticBridge.currentLanguage, the selector's value
  priceLoad,           \* loadPriceData: "pending", "loaded" or "failed"
  recognition,         \* the speech recognition session: "idle", "active", "done"
  isProcessing,        \* LinguisticBridge.isProcessing
  pc,                  \* position inside processVoiceInput, "idle" outside it
  voiceText,           \* voiceResult.text of the request being processed
  fault,               \* the stage whose call threw in this request, or "none"
  intent,              \* the locals of processVoiceInput, None until assigned
  processedText,
  priceData,
  negotiationGuidance,
  response,
  responseText,        \* the text of the response section while it is visible
  criticalError,       \* handleCriticalError has shown its message
  phrases,             \* NegotiationAssistant.culturalPatterns.respectful.phrases
  probe,               \* the last direct call of a component and its result
  localStorage,        \* the keys window.localStorage holds
  storageWrites,       \* the stores written so far: localStorage, sessionStorage, cookies
  retryOffered,        \* the status line shows an error with its "Try Again" button
  retryTimers,         \* the retry timers (500 ms) started and not yet fired
  stages,              \* the stages whose component was called in this request, in order
  isListening,         \* VoiceInterface.isListening
  session,             \* the recogniser's session: "none", "starting", "listening", "ending"
  sessionId,           \* the start() call that began the session, 0 without a session
  starts,              \* the calls of recognition.start() so far
  timers,              \* the start() calls whose 30 s listening timeout is pending
  listeningTimeout,    \* LinguisticBridge.listeningTimeout: the timer it holds, 0 for null
  indicator,           \* the listening indicator and the button's listening class are shown
  notice,              \* what the status line shows, "none" while it is hidden
  currentState,        \* UIStateManager.currentState of the minimal page
  responseTimers,      \* the showResponse timers (3 s) of the minimal page not yet fired
  uiIsListening,       \* VoiceInterface.isListening of the minimal page
  uiSession,           \* the recogniser's session of the minimal page
  uiLanguage,          \* LanguageManager.currentLanguage of the minimal page
  uiVoiceLanguage      \* VoiceInterface.currentLanguage of the minimal page

vars ==
  << currentLanguage, priceLoad, recognition, isProcessing, pc, voiceText, fault,
     intent, processedText, priceData, negotiationGuidance, response, responseText,
     criticalError, phrases, probe, localStorage, storageWrites, retryOffered,
     retryTimers, stages, isListening, session, sessionId, starts, timers,
     listeningTimeout, indicator, notice, currentState, responseTimers,
     uiIsListening, uiSession, uiLanguage, uiVoiceLanguage >>

storage == << localStorage, storageWrites >>
retry == << retryOffered, retryTimers >>
listen ==
  << isListening, session, sessionId, starts, timers, listeningTimeout, indicator,
     notice >>
ui == << currentState, responseTimers, uiIsListening, uiSession, uiLanguage,
         uiVoiceLanguage >>

locals == << intent, processedText, priceData, negotiationGuidance, response >>

Languages == { "en-US", "hi-IN", "kn-IN" }
RandomDraws == { 0, 500, 999 }
MaxPhrases == 5
MaxRetryTimers == 1

isDataLoaded == priceLoad = "loaded"

\* the fields as the constructor assigns them and the page as it loads, but
\* for isProcessing
Fields ==
  /\ currentLanguage = "en-US"
  /\ priceLoad = "pending"
  /\ recognition = "idle"
  /\ retryOffered = FALSE
  /\ retryTimers = 0
  /\ stages = << >>
  /\ isListening = FALSE
  /\ session = "none"
  /\ sessionId = 0
  /\ starts = 0
  /\ timers = {}
  /\ listeningTimeout = 0
  /\ indicator = FALSE
  /\ notice = "none"
  /\ currentState = "idle"
  /\ responseTimers = 0
  /\ uiIsListening = FALSE
  /\ uiSession = "none"
  /\ uiLanguage = "hi-IN"
  /\ uiVoiceLanguage = "hi-IN"
  /\ voiceText = ""
  /\ fault = "none"
  /\ intent = None
  /\ processedText = None
  /\ priceData = None
  /\ negotiationGuidance = None
  /\ response = None
  /\ responseText = None
  /\ criticalError = FALSE
  /\ phrases = InitialPhrases

\* the constructor sets isProcessing to false
Fresh == Fields /\ isProcessing = FALSE

\* the state the constructors leave, the probe apart: initializeUI has written
\* its key and initializePrivacyProtection has cleared the store
Constructed ==
  /\ Fresh
  /\ pc = "idle"
  /\ localStorage = {}
  /\ storageWrites = { "localStorage" }

\* the constructor of LinguisticBridge is about to call initializeUI; the
\* origin's stores are empty
Init ==
  /\ Fresh
  /\ pc = "initializeUI"
  /\ localStorage = {}
  /\ storageWrites = {}
  /\ probe = [ op |-> "none" ]

(***************************************************************************)
(* Start-up: the constructor's calls that touch the stores.                *)
(***************************************************************************)
\* initializeUI ends in initializeEnhancedFeatures, which notes the tutorial
\* as shown unless the key is there
InitializeUI ==
  /\ pc = "initializeUI"
  /\ IF "tutorialShown" \notin localStorage
       THEN /\ localStorage' = localStorage \cup { "tutorialShown" }
            /\ storageWrites' = storageWrites \cup { "localStorage" }
       ELSE UNCHANGED storage
  /\ pc' = "initializePrivacyProtection"
  /\ UNCHANGED << currentLanguage, priceLoad, recognition, isProcessing, voiceText,
                  fault, locals, responseText, criticalError, phrases, probe, retry, stages, listen, ui >>

\* validateNoDataPersistence and clearAnyExistingData: both clear localStorage;
\* nothing is in sessionStorage or the cookies to clear
InitializePrivacyProtection ==
  /\ pc = "initializePrivacyProtection"
  /\ localStorage' = {}
  /\ pc' = "idle"
  /\ UNCHANGED << currentLanguage, priceLoad, recognition, isProcessing, voiceText,
                  fault, locals, responseText, criticalError, phrases, probe,
                  storageWrites, retry, stages, listen, ui >>

(***************************************************************************)
(* Events outside a request.  processVoiceInput awaits only calls that     *)
(* finish without waiting, so no other handler runs between its steps:     *)
(* the events below are enabled at pc = "idle" only.                       *)
(***************************************************************************)
\* loadPriceData: the fetch of the dataset ends, well or not
LoadPriceData(ok) ==
  /\ pc = "idle"
  /\ priceLoad = "pending"
  /\ priceLoad' = IF ok THEN "loaded" ELSE "failed"
  /\ UNCHANGED << currentLanguage, recognition, isProcessing, pc, voiceText, fault,
                  locals, responseText, criticalError, phrases, probe,
                  storage, retry, stages, listen, ui >>

\* the change listener of languageSelect
SelectLanguage(language) ==
  /\ pc = "idle"
  /\ currentLanguage # language
  /\ currentLanguage' = language
  /\ UNCHANGED << priceLoad, recognition, isProcessing, pc, voiceText, fault,
                  locals, responseText, criticalError, phrases, probe,
                  storage, retry, stages, listen, ui >>

\* handleVoiceInput while not listening: startListening hides the response
\* section and replaces the status line
StartListening ==
  /\ pc = "idle"
  /\ ~isProcessing
  /\ recognition = "idle"
  /\ Len(phrases) < MaxPhrases
  /\ recognition' = "active"
  /\ responseText' = None
  /\ criticalError' = FALSE
  /\ retryOffered' = FALSE
  /\ UNCHANGED << currentLanguage, priceLoad, isProcessing, pc, voiceText, fault,
                  locals, phrases, probe, storage, retryTimers, stages, listen, ui >>

\* handleVoiceInput while listening (voiceInterface.stopListening), or the
\* recognition's onend
StopListening ==
  /\ pc = "idle"
  /\ recognition # "idle"
  /\ recognition' = "idle"
  /\ UNCHANGED << currentLanguage, priceLoad, isProcessing, pc, voiceText, fault,
                  locals, responseText, criticalError, phrases, probe,
                  storage, retry, stages, listen, ui >>

\* the recognition's onerror reaches handleVoiceError: the session is over,
\* isProcessing is reset and showErrorWithRetry replaces the status line;
\* retryable says whether the error's kind gets the "Try Again" button
VoiceError(retryable) ==
  /\ pc = "idle"
  /\ recognition = "active"
  /\ recognition' = "idle"
  /\ isProcessing' = FALSE
  /\ criticalError' = FALSE
  /\ retryOffered' = retryable
  /\ UNCHANGED << currentLanguage, priceLoad, pc, voiceText, fault, locals,
                  responseText, phrases, probe, storage, retryTimers, stages, listen, ui >>

\* the click listener of the retry button: the status line is hidden and
\* handleVoiceInput is set to run 500 ms later
RetryClick ==
  /\ pc = "idle"
  /\ retryOffered
  /\ retryTimers < MaxRetryTimers
  /\ retryOffered' = FALSE
  /\ retryTimers' = retryTimers + 1
  /\ UNCHANGED << currentLanguage, priceLoad, recognition, isProcessing, pc,
                  voiceText, fault, locals, responseText, criticalError, phrases,
                  probe, storage, stages, listen, ui >>

\* the dismiss button, or the timer that hides the error after 10 s
DismissError ==
  /\ pc = "idle"
  /\ retryOffered
  /\ retryOffered' = FALSE
  /\ UNCHANGED << currentLanguage, priceLoad, recognition, isProcessing, pc,
                  voiceText, fault, locals, responseText, criticalError, phrases,
                  probe, storage, retryTimers, stages, listen, ui >>

\* a retry timer fires: handleVoiceInput returns if a request is in progress,
\* stops the recognition if it listens and starts to listen if not
RetryTimer ==
  /\ pc = "idle"
  /\ retryTimers > 0
  /\ recognition = "idle" /\ ~isProcessing => Len(phrases) < MaxPhrases
  /\ retryTimers' = retryTimers - 1
  /\ IF isProcessing
       THEN UNCHANGED << recognition, responseText, criticalError, retryOffered, stages, listen, ui >>
       ELSE IF recognition # "idle"
         THEN /\ recognition' = "idle"
              /\ UNCHANGED << responseText, criticalError, retryOffered, stages, listen, ui >>
         ELSE /\ recognition' = "active"
              /\ responseText' = None
              /\ criticalError' = FALSE
              /\ retryOffered' = FALSE
  /\ UNCHANGED << currentLanguage, priceLoad, isProcessing, pc, voiceText, fault,
                  locals, phrases, probe, storage, stages, listen, ui >>

(***************************************************************************)
(* processVoiceInput, step by step.                                        *)
(***************************************************************************)
\* variant: a result handled whenever the recognition has a session, whether
\* or not a request is in progress
SpeechResultAnyTime(text) ==
  /\ recognition # "idle"
  /\ recognition' = "done"
  /\ isProcessing' = TRUE
  /\ voiceText' = text
  /\ fault' = "none"
  /\ pc' = "classify"
  /\ retryOffered' = FALSE
  /\ UNCHANGED << currentLanguage, priceLoad, locals, responseText, criticalError,
                  phrases, probe, storage, retryTimers, stages, listen, ui >>

\* onresult: the final transcript reaches processVoiceInput
SpeechResult(text) ==
  /\ pc = "idle"
  /\ recognition = "active"
  /\ recognition' = "done"
  /\ isProcessing' = TRUE
  /\ voiceText' = text
  /\ fault' = "none"
  /\ pc' = "classify"
  /\ retryOffered' = FALSE
  /\ UNCHANGED << currentLanguage, priceLoad, locals, responseText, criticalError,
                  phrases, probe, storage, retryTimers, stages, listen, ui >>

\* what a stage leaves in fault
Faulted(stage, raise) == IF raise THEN stage ELSE fault

Classify(raise) ==
  /\ pc = "classify"
  /\ raise => fault = "none"
  /\ LET stage == classifyStage(voiceText, currentLanguage, raise)
     IN  /\ intent' = IF stage.threw THEN intent ELSE Some(stage.value)
         /\ pc' = IF stage.threw THEN "critical" ELSE "translate"
  /\ fault' = Faulted("classify", raise)
  /\ stages' = Append(stages, "classify")
  /\ UNCHANGED << currentLanguage, priceLoad, recognition, isProcessing, voiceText,
                  processedText, priceData, negotiationGuidance, response,
                  responseText, criticalError, phrases, probe,
                  storage, retry, listen, ui >>

Translate(raise) ==
  /\ pc = "translate"
  /\ raise => fault = "none" /\ currentLanguage # "en-US"
  /\ LET stage == translateStage(voiceText, currentLanguage, Get(intent), raise)
     IN  /\ processedText' = IF stage.threw THEN processedText ELSE Some(stage.value)
         /\ pc' = IF stage.threw THEN "critical" ELSE "quote"
  /\ fault' = Faulted("translate", raise)
  /\ stages' = IF currentLanguage # "en-US" THEN Append(stages, "translate") ELSE stages
  /\ UNCHANGED << currentLanguage, priceLoad, recognition, isProcessing, voiceText,
                  intent, priceData, negotiationGuidance, response,
                  responseText, criticalError, phrases, probe,
                  storage, retry, listen, ui >>

Quote(rand, raise) ==
  /\ pc = "quote"
  /\ raise => fault = "none" /\ Get(intent).type \in {"bargaining", "bulk_purchase"}
  /\ LET stage == quoteStage(Get(intent), rand, isDataLoaded, raise)
     IN  /\ priceData' = IF stage.threw THEN priceData ELSE stage.value
         /\ pc' = IF stage.threw THEN "critical" ELSE "guide"
  /\ fault' = Faulted("quote", raise)
  /\ stages' = IF Get(intent).type \in {"bargaining", "bulk_purchase"}
                 THEN Append(stages, "quote") ELSE stages
  /\ UNCHANGED << currentLanguage, priceLoad, recognition, isProcessing, voiceText,
                  intent, processedText, negotiationGuidance, response,
                  responseText, criticalError, phrases, probe,
                  storage, retry, listen, ui >>

Guide(raise) ==
  /\ pc = "guide"
  /\ raise => fault = "none"
  /\ LET stage == guideStage(Get(intent), priceData, Get(processedText), phrases, raise)
     IN  /\ negotiationGuidance' = IF stage.threw THEN negotiationGuidance ELSE stage.value
         /\ phrases' = stage.phrases
         /\ pc' = IF stage.threw THEN "critical" ELSE "render"
  /\ fault' = Faulted("guide", raise)
  /\ stages' = Append(stages, "guide")
  /\ UNCHANGED << currentLanguage, priceLoad, recognition, isProcessing, voiceText,
                  intent, processedText, priceData, response,
                  responseText, criticalError, probe,
                  storage, retry, listen, ui >>

Render(raise) ==
  /\ pc = "render"
  /\ raise => fault = "none"
  /\ LET stage == renderStage(Get(intent), priceData, Get(negotiationGuidance),
                              currentLanguage, raise)
     IN  /\ response' = IF stage.threw THEN response ELSE Some(stage.value)
         /\ pc' = IF stage.threw THEN "critical" ELSE "display"
  /\ fault' = Faulted("render", raise)
  /\ stages' = Append(stages, "render")
  /\ UNCHANGED << currentLanguage, priceLoad, recognition, isProcessing, voiceText,
                  intent, processedText, priceData, negotiationGuidance,
                  responseText, criticalError, phrases, probe,
                  storage, retry, listen, ui >>

\* displayResponse as the constructor wrapped it: filterResponse, then the text
\* goes to the response section, which becomes visible.  raise: the call throws
\* before it has shown anything, which only the outer catch handles.
Display(raise) ==
  /\ pc = "display"
  /\ raise => fault = "none"
  /\ responseText' = IF raise THEN responseText
                     ELSE Some(filterResponse(Get(response), currentLanguage).text)
  /\ pc' = IF raise THEN "critical" ELSE "finally"
  /\ fault' = Faulted("display", raise)
  /\ UNCHANGED << currentLanguage, priceLoad, recognition, isProcessing, voiceText,
                  locals, criticalError, phrases, probe,
                  storage, retry, stages, listen, ui >>

\* the outer catch: handleCriticalError shows its message in the status line
HandleCriticalError ==
  /\ pc = "critical"
  /\ criticalError' = TRUE
  /\ pc' = "finally"
  /\ UNCHANGED << currentLanguage, priceLoad, recognition, isProcessing, voiceText,
                  fault, locals, responseText, phrases, probe,
                  storage, retry, stages, listen, ui >>

\* variant: a finally block that leaves isProcessing as it is
FinallyKeepsProcessing ==
  /\ pc = "finally"
  /\ pc' = "idle"
  /\ voiceText' = ""
  /\ fault' = "none"
  /\ intent' = None
  /\ processedText' = None
  /\ priceData' = None
  /\ negotiationGuidance' = None
  /\ response' = None
  /\ stages' = << >>
  /\ UNCHANGED << currentLanguage, priceLoad, recognition, isProcessing,
                  responseText, criticalError, phrases, probe,
                  storage, retry, listen, ui >>

\* the finally block; the locals go out of scope and the record of the
\* stages called is for the next request
Finally ==
  /\ pc = "finally"
  /\ isProcessing' = FALSE
  /\ pc' = "idle"
  /\ voiceText' = ""
  /\ fault' = "none"
  /\ intent' = None
  /\ processedText' = None
  /\ priceData' = None
  /\ negotiationGuidance' = None
  /\ response' = None
  /\ stages' = << >>
  /\ UNCHANGED << currentLanguage, priceLoad, recognition, responseText,
                  criticalError, phrases, probe,
                  storage, retry, listen, ui >>

Next ==
  \/ InitializeUI
  \/ InitializePrivacyProtection
  \/ \E ok \in BOOLEAN : LoadPriceData(ok)
  \/ \E language \in Languages : SelectLanguage(language)
  \/ StartListening
  \/ StopListening
  \/ \E retryable \in BOOLEAN : VoiceError(retryable)
  \/ RetryClick
  \/ DismissError
  \/ RetryTimer
  \/ \E text \in Utterances : SpeechResult(text)
  \/ \E raise \in BOOLEAN : Classify(raise)
  \/ \E raise \in BOOLEAN : Translate(raise)
  \/ \E rand \in RandomDraws, raise \in BOOLEAN : Quote(rand, raise)
  \/ \E raise \in BOOLEAN : Guide(raise)
  \/ \E raise \in BOOLEAN : Render(raise)
  \/ \E raise \in BOOLEAN : Display(raise)
  \/ HandleCriticalError
  \/ Finally

Spec == Init /\ [][Next]_vars

\* a step of a request in progress: the continuation of processVoiceInput
\* after an await, the outer catch or the finally block
RequestStep ==
  \/ \E raise \in BOOLEAN : Classify(raise)
  \/ \E raise \in BOOLEAN : Translate(raise)
  \/ \E rand \in RandomDraws, raise \in BOOLEAN : Quote(rand, raise)
  \/ \E raise \in BOOLEAN : Guide(raise)
  \/ \E raise \in BOOLEAN : Render(raise)
  \/ \E raise \in BOOLEAN : Display(raise)
  \/ HandleCriticalError
  \/ Finally

\* The page with any utterance of RunUtterances heard.
RunUtterances == { "too expensive", "Do you have fresh tomatoes?" }

NextRun ==
  \/ InitializeUI
  \/ InitializePrivacyProtection
  \/ \E ok \in BOOLEAN : LoadPriceData(ok)
  \/ \E language \in Languages : SelectLanguage(language)
  \/ StartListening
  \/ StopListening
  \/ \E retryable \in BOOLEAN : VoiceError(retryable)
  \/ RetryClick
  \/ DismissError
  \/ RetryTimer
  \/ \E text \in RunUtterances : SpeechResult(text)
  \/ RequestStep

\* a request is in progress: processVoiceInput is at one of its stages, in
\* its outer catch or before its finally block, where RequestStep is enabled
InProgress ==
  pc \in { "classify", "translate", "quote", "guide", "render", "display",
           "critical", "finally" }

\* The awaited methods return without waiting and the continuations are
\* microtasks the event loop always runs: a request in progress takes its
\* next step.  This is weak fairness of RequestStep, with ENABLED written as
\* the state predicate it equals.  Nothing is assumed of the user, the
\* recogniser or the timers.
RequestProgress == []<>(~InProgress) \/ []<><<RequestStep>>_vars

FairSpec == Init /\ [][NextRun]_vars /\ RequestProgress

(***************************************************************************)
(* The components called directly (SpecUnit).  The initial state holds one *)
(* call with its arguments in probe; the call's action applies the method  *)
(* to them in the state of the page and leaves the result in probe.        *)
(* processVoiceInput may be called again on the same text.                 *)
(***************************************************************************)
UnitProducts ==
  { None, Some(""), Some("unknown"), Some("rice"), Some("Rice!"), Some("tomatoes"),
    Some("zorblax") }

\* absent, empty, 'general', categories of the dataset, a category of the
\* classifier the dataset lacks, and a category nobody knows
UnitCategories ==
  { None, Some(""), Some("general"), Some("grains"), Some("vegetables"),
    Some("fruits"), Some("spices") }

\* the selector's values, internal codes, an unsupported tag and the empty tag
UnitLanguages == { "en-US", "hi-IN", "kannada", "ta-IN", "" }

\* the codes the pipeline passes to translate, and a tag of the selector
TranslateLanguages == { "english", "hindi", "kannada", "hi-IN" }

IntentArguments == { "null", "classified", "fallback" }
PriceArguments == { "null", "complete", "market", "fallback" }
GuidanceArguments == { "null", "generated", "fallback" }

IntentArgument(kind, text) ==
  CASE kind = "classified" -> Some(classifyIntent(Some(text), "english"))
    [] kind = "fallback" -> Some(createFallbackIntent(text))
    [] OTHER -> None

\* null, a quote with ranges and negotiation, a quote of getMarketPrice (it has
\* neither), the pipeline's fallback quote (it has no prices either)
PriceArgument(kind, givenIntent) ==
  CASE kind = "complete" ->
         Some(generateFallbackPriceRange(IF IsNull(givenIntent) THEN "" ELSE Get(givenIntent).product,
                                         IF IsNull(givenIntent) THEN "" ELSE Get(givenIntent).category))
    [] kind = "market" -> getMarketPrice(Some("rice"), Some("grains"), 500, TRUE)
    [] kind = "fallback" ->
         Some(createFallbackPriceData(IF IsNull(givenIntent) THEN "" ELSE Get(givenIntent).product))
    [] OTHER -> None

GuidanceArgument(kind, givenIntent, givenPrice, text) ==
  CASE kind = "generated" /\ ~IsNull(givenIntent) ->
         generateGuidance(givenIntent, givenPrice, text, InitialPhrases).value
    [] kind = "fallback" -> Some(createFallbackNegotiationGuidance)
    [] OTHER -> None

InitUnit ==
  /\ Constructed
  /\ \/ \E text \in { None } \cup { Some(u) : u \in Utterances \cup { UnmatchedUtterance } },
           language \in { "english", "hindi", "kannada" } :
          probe = [ op |-> "classifyIntent", text |-> text, language |-> language,
                    done |-> FALSE, result |-> None ]
     \/ \E product \in UnitProducts, category \in UnitCategories :
          probe = [ op |-> "getMarketPrice", product |-> product, category |-> category,
                    done |-> FALSE, result |-> None ]
     \/ \E text \in Utterances, i \in IntentArguments, p \in PriceArguments :
        \E intentArgument \in { IntentArgument(i, text) } :
          probe = [ op |-> "generateGuidance", intent |-> intentArgument,
                    priceData |-> PriceArgument(p, intentArgument),
                    originalText |-> text, done |-> FALSE, threw |-> FALSE,
                    internalError |-> FALSE, result |-> None ]
     \/ \E text \in Utterances, i \in IntentArguments, p \in PriceArguments,
           g \in GuidanceArguments, language \in UnitLanguages :
        \E intentArgument \in { IntentArgument(i, text) } :
        \E priceArgument \in { PriceArgument(p, intentArgument) } :
          probe = [ op |-> "formatResponse",
                    data |-> Some([ intent |-> intentArgument,
                                    priceData |-> priceArgument,
                                    negotiationGuidance |->
                                      GuidanceArgument(g, intentArgument,
                                                       priceArgument, text) ]),
                    language |-> language, done |-> FALSE,
                    internalError |-> FALSE, result |-> None ]
     \/ \E language \in UnitLanguages :
          probe = [ op |-> "formatResponse", data |-> None, language |-> language,
                    done |-> FALSE, internalError |-> FALSE, result |-> None ]
     \/ \E text \in Utterances :
          probe = [ op |-> "processVoiceInput", text |-> text, language |-> "",
                    done |-> FALSE, result |-> None ]
     \/ \E text \in Utterances, fromLanguage \in TranslateLanguages,
           toLanguage \in TranslateLanguages :
          probe = [ op |-> "translate", text |-> text, fromLanguage |-> fromLanguage,
                    toLanguage |-> toLanguage, done |-> FALSE, result |-> "" ]

CallClassifyIntent ==
  /\ probe.op = "classifyIntent" /\ ~probe.done
  /\ probe' = [ probe EXCEPT !.done = TRUE,
                             !.result = Some(classifyIntent(probe.text, probe.language)) ]
  /\ UNCHANGED << currentLanguage, priceLoad, recognition, isProcessing, pc, voiceText,
                  fault, locals, responseText, criticalError, phrases,
                  storage, retry, stages, listen, ui >>

\* translate with the intent the classifier finds in the text
CallTranslate ==
  /\ probe.op = "translate" /\ ~probe.done
  /\ probe' = [ probe EXCEPT !.done = TRUE,
                             !.result = translate(probe.text, probe.fromLanguage,
                                                  probe.toLanguage,
                                                  classifyIntent(Some(probe.text),
                                                                 "english")) ]
  /\ UNCHANGED << currentLanguage, priceLoad, recognition, isProcessing, pc, voiceText,
                  fault, locals, responseText, criticalError, phrases,
                  storage, retry, stages, listen, ui >>

\* result holds what the call returned, which may be null
CallGetMarketPrice(rand) ==
  /\ probe.op = "getMarketPrice" /\ ~probe.done
  /\ probe' = [ probe EXCEPT !.done = TRUE,
                             !.result = getMarketPrice(probe.product, probe.category,
                                                       rand, isDataLoaded) ]
  /\ UNCHANGED << currentLanguage, priceLoad, recognition, isProcessing, pc, voiceText,
                  fault, locals, responseText, criticalError, phrases,
                  storage, retry, stages, listen, ui >>

\* internalError: the body of the method's try block threw
CallGenerateGuidance ==
  /\ probe.op = "generateGuidance" /\ ~probe.done
  /\ LET call == generateGuidance(probe.intent, probe.priceData, probe.originalText, phrases)
     IN  /\ probe' = [ probe EXCEPT
                         !.done = TRUE,
                         !.threw = call.threw,
                         !.internalError = guidanceBody(probe.intent, probe.priceData,
                                                        probe.originalText, phrases).threw,
                         !.result = call.value ]
         /\ phrases' = call.phrases
  /\ UNCHANGED << currentLanguage, priceLoad, recognition, isProcessing, pc, voiceText,
                  fault, locals, responseText, criticalError,
                  storage, retry, stages, listen, ui >>

CallFormatResponse ==
  /\ probe.op = "formatResponse" /\ ~probe.done
  /\ probe' = [ probe EXCEPT
                  !.done = TRUE,
                  !.internalError = responseBody(probe.data, probe.language).threw,
                  !.result = Some(formatResponse(probe.data, probe.language)) ]
  /\ UNCHANGED << currentLanguage, priceLoad, recognition, isProcessing, pc, voiceText,
                  fault, locals, responseText, criticalError, phrases,
                  storage, retry, stages, listen, ui >>

\* processVoiceInput from its first line to its last for the probe's text in the
\* selected language, no stage's call throwing
CallProcess(rand) ==
  /\ probe.op = "processVoiceInput"
  /\ Len(phrases) < MaxPhrases
  /\ \E classified \in { classifyStage(probe.text, currentLanguage, FALSE).value } :
     \E translated \in { translateStage(probe.text, currentLanguage, classified, FALSE).value } :
     \E quote \in { quoteStage(classified, rand, isDataLoaded, FALSE).value } :
     \E guidance \in { guideStage(classified, quote, translated, phrases, FALSE) } :
     \E rendered \in { renderStage(classified, quote, Get(guidance.value),
                                   currentLanguage, FALSE).value } :
     \E shown \in { filterResponse(rendered, currentLanguage).text } :
       /\ probe' = [ probe EXCEPT !.done = TRUE, !.language = currentLanguage,
                                  !.result = Some(shown) ]
       /\ responseText' = Some(shown)
       /\ phrases' = guidance.phrases
  /\ UNCHANGED << currentLanguage, priceLoad, recognition, isProcessing, pc, voiceText,
                  fault, locals, criticalError,
                  storage, retry, stages, listen, ui >>

NextUnit ==
  \/ \E ok \in BOOLEAN : LoadPriceData(ok)
  \/ \E language \in Languages : SelectLanguage(language)
  \/ CallClassifyIntent
  \/ CallTranslate
  \/ \E rand \in RandomDraws : CallGetMarketPrice(rand)
  \/ CallGenerateGuidance
  \/ CallFormatResponse
  \/ \E rand \in RandomDraws : CallProcess(rand)

SpecUnit == InitUnit /\ [][NextUnit]_vars

(***************************************************************************)
(* Properties of the pipeline (Spec).                                      *)
(***************************************************************************)
FallbackStages == { "classify", "translate", "quote", "guide", "render" }

\* the positions after each stage's assignment
AfterClassify == { "translate", "quote", "guide", "render", "display", "finally" }
AfterTranslate == { "quote", "guide", "render", "display", "finally" }
AfterQuote == { "guide", "render", "display", "finally" }
AfterGuide == { "render", "display", "finally" }
AfterRender == { "display", "finally" }

\* C6: when one of the five stages (classify, translate, quote, guide, render)
\* raises an error, the stage's result is the stage's documented fallback, the
\* request goes on, and it ends with a response shown in the response section
\* (never with the critical-error message).
C6_StageFaultIsReplacedAndAnswered ==
  /\ fault \in FallbackStages => pc # "critical" /\ ~criticalError
  /\ (fault = "classify" /\ pc \in AfterClassify)
       => intent = Some(createFallbackIntent(voiceText))
  /\ (fault = "translate" /\ pc \in AfterTranslate)
       => processedText = Some(voiceText)
  /\ (fault = "quote" /\ pc \in AfterQuote)
       => priceData = Some(createFallbackPriceData(Get(intent).product))
  /\ (fault = "guide" /\ pc \in AfterGuide)
       => negotiationGuidance = Some(createFallbackNegotiationGuidance)
  /\ (fault = "render" /\ pc \in AfterRender)
       => response = Some(createPipelineFallbackResponse(currentLanguage))
  /\ (fault \in FallbackStages /\ pc = "finally")
       => ~IsNull(responseText) /\ Get(responseText) # ""

\* a request whose guidance stage raised has reached its end with a response shown
C6_Witness ==
  /\ pc = "finally"
  /\ fault = "guide"
  /\ negotiationGuidance = Some(createFallbackNegotiationGuidance)
  /\ ~IsNull(responseText)

\* C8: requests never grow or change a collection that outlives a request; of the
\* tables the pipeline reads, culturalPatterns.respectful.phrases is the one a
\* request can write, so the property is that it stays as constructed.
C8_TablesStayAsConstructed == phrases = InitialPhrases

\* C9: the text of every response handed to the display, after formatting and
\* cultural filtering, normal or fallback, has at most 300 characters.
C9_DisplayedTextWithinLimit ==
  ~IsNull(responseText) => Len(Get(responseText)) <= MaxDisplayLength

(***************************************************************************)
(* Properties of the components (SpecUnit).                                *)
(***************************************************************************)
Called(op) == probe.op = op /\ probe.done

\* C1: for every product string (one absent from the dataset included) and every
\* category (missing, 'general' or unrecognized included) the price lookup
\* returns a quote, never null.
C1_LookupNeverNull ==
  Called("getMarketPrice") => ~IsNull(probe.result)

RecommendedOffers(guidance) ==
  Len(SelectSeq(guidance.counterOffers, LAMBDA offer : offer.recommended))

\* C2: for every valid intent and every price argument the counter-offers of the
\* returned guidance have exactly one recommended entry when a quote is supplied
\* and at most one when the price is null.
C2_OneRecommendedOffer ==
  (Called("generateGuidance") /\ ~IsNull(probe.intent))
    => /\ ~IsNull(probe.result)
       /\ IF IsNull(probe.priceData)
            THEN RecommendedOffers(Get(probe.result)) <= 1
            ELSE RecommendedOffers(Get(probe.result)) = 1

\* guidance for a quote with ranges: three offers, one of them recommended
C2_Witness ==
  /\ Called("generateGuidance")
  /\ ~IsNull(probe.intent)
  /\ ~IsNull(probe.priceData)
  /\ ~IsNull(Get(probe.priceData).ranges)
  /\ ~IsNull(probe.result)
  /\ Len(Get(probe.result).counterOffers) = 3
  /\ RecommendedOffers(Get(probe.result)) = 1

\* C3: for every (product, category) the returned quote has
\* minPrice <= marketPrice <= maxPrice, all three strictly positive integers.
C3_QuoteOrderedAndPositive ==
  Called("getMarketPrice")
    => /\ ~IsNull(probe.result)
       /\ ~IsNull(Get(probe.result).minPrice)
       /\ ~IsNull(Get(probe.result).marketPrice)
       /\ ~IsNull(Get(probe.result).maxPrice)
       /\ 0 < Get(Get(probe.result).minPrice)
       /\ Get(Get(probe.result).minPrice) <= Get(Get(probe.result).marketPrice)
       /\ Get(Get(probe.result).marketPrice) <= Get(Get(probe.result).maxPrice)

\* C4: for a valid intent and any price argument (null, a complete quote, a quote
\* lacking the range and negotiation fields) generateGuidance lets no exception
\* out, and when its body fails it returns guidance marked fallback whose
\* confidence is at most 0.3.
C4_GuidanceNeverThrows ==
  (Called("generateGuidance") /\ ~IsNull(probe.intent))
    => /\ ~probe.threw
       /\ ~IsNull(probe.result)
       /\ probe.internalError
            => Get(probe.result).fallback /\ Get(probe.result).confidence <= 300

\* the body failed on a quote without ranges and the fallback guidance came back
C4_Witness ==
  /\ Called("generateGuidance")
  /\ ~IsNull(probe.intent)
  /\ ~IsNull(probe.priceData)
  /\ probe.internalError
  /\ ~probe.threw
  /\ Get(probe.result).fallback

\* C5: for every input string (the empty one included) and every supported
\* language classifyIntent returns, its type is bargaining, bulk_purchase or
\* casual_inquiry and its confidence lies in [0, 1].
C5_ClassificationInRange ==
  Called("classifyIntent")
    => /\ ~IsNull(probe.result)
       /\ Get(probe.result).type \in { "bargaining", "bulk_purchase", "casual_inquiry" }
       /\ Get(probe.result).confidence >= 0
       /\ Get(probe.result).confidence <= 1000

\* a text with several matches, classified with the capped confidence
C5_Witness ==
  /\ Called("classifyIntent")
  /\ probe.text = Some("onion ka daam kam karo")
  /\ Get(probe.result).type = "bargaining"
  /\ Get(probe.result).confidence = 950

\* C7: two requests with the same text and the same language show the same
\* response text.
C7_SameRequestSameText ==
  [][ (probe.op = "processVoiceInput" /\ probe.done /\ probe'.language = probe.language)
        => probe'.result = probe.result ]_vars

\* the word by which each fixed fallback message is known
FallbackMessageWord(language) ==
  CASE language \in { "hi-IN", "hindi" } -> "madad"
    [] language \in { "kn-IN", "kannada" } -> "maadabaudu"
    [] OTHER -> "help with your pricing questions"

\* C10: formatResponse returns for every intent, price and guidance argument, null
\* ones included, and when its body fails the result is the fixed fallback
\* message of the requested language with fallback = true and actionable = false.
C10_RenderFallback ==
  Called("formatResponse")
    => /\ ~IsNull(probe.result)
       /\ Get(probe.result).text # ""
       /\ probe.internalError
            => /\ Get(probe.result).fallback
               /\ ~Get(probe.result).actionable
               /\ Includes(Get(probe.result).text, FallbackMessageWord(probe.language))

\* the body failed on a null guidance and the Hindi message came back
C10_Witness ==
  /\ Called("formatResponse")
  /\ probe.language = "hi-IN"
  /\ ~IsNull(probe.data)
  /\ IsNull(Get(probe.data).negotiationGuidance)
  /\ probe.internalError
  /\ Get(probe.result).fallback

(***************************************************************************)
(* The stores of the browser (Spec).                                       *)
(***************************************************************************)
\* C11: neither start-up nor a request ever writes an entry to localStorage,
\* sessionStorage or the cookies.
C11_NoStorageWrite == storageWrites = {}

(***************************************************************************)
(* The price lookup on unknown products (SpecUnit).                        *)
(***************************************************************************)
\* categories that are missing or that neither the dataset nor the estimates know
UnknownCategories == { None, Some(""), Some("spices") }

\* C12: for a product absent from the dataset together with a missing or
\* unrecognized category the lookup returns the estimate of the general bucket:
\* source fallback_estimate and confidence at most 0.5.
C12_UnknownProductGetsGeneralEstimate ==
  ( /\ Called("getMarketPrice")
    /\ probe.product = Some("zorblax")
    /\ probe.category \in UnknownCategories )
  => /\ ~IsNull(probe.result)
     /\ Get(probe.result).source = "fallback_estimate"
     /\ Get(probe.result).confidence <= 500

(***************************************************************************)
(* Translation (SpecUnit).                                                 *)
(***************************************************************************)
\* the word table of the pair holds a term that occurs in the text as a word
DictionaryTermOccurs(text, fromLanguage, toLanguage) ==
  LET translations == commonTranslations(normalizeLanguageCode(fromLanguage) \o "_to_"
                                           \o normalizeLanguageCode(toLanguage))
  IN  /\ ~IsNull(translations)
      /\ \E i \in 1..Len(Get(translations)) :
           replaceIgnoringCase(text, toLowerCase(text), 1, Get(translations)[i][1],
                               "", TRUE) # text

\* a pattern of some tone occurs in the text
ToneDetected(text) ==
  \E i \in 1..Len(tonePatterns) :
    \E pat \in tonePatterns[i].patterns : Includes(toLowerCase(text), pat)

\* C13: when no phrase template matches (none matches a modelled utterance), no
\* term of the word table occurs in the text and no tone pattern is found,
\* translate returns the original text character for character.
C13_UntouchedTextIsReturnedAsIs ==
  ( /\ Called("translate")
    /\ ~DictionaryTermOccurs(probe.text, probe.fromLanguage, probe.toLanguage)
    /\ ~ToneDetected(probe.text) )
  => probe.result = probe.text

\* C14: translate returns its input text unchanged whenever the source language
\* and the target language are the same.
C14_SameLanguageIsIdentity ==
  Called("translate") /\ probe.fromLanguage = probe.toLanguage
  => probe.result = probe.text

\* a text with a tone pattern and a term of the word tables, in one language
C14_Witness ==
  /\ Called("translate")
  /\ probe.fromLanguage = "hindi" /\ probe.toLanguage = "hindi"
  /\ probe.text = "best price please, give discount"
  /\ probe.result = probe.text

(***************************************************************************)
(* The classifier's confidence as a function of the matches (SpecScore).   *)
(* A call is drawn as the classifier would make it for two utterances that *)
(* differ only in the entries of the winning intent they contain: the      *)
(* scores the other entries and the contextual rules give (base), the      *)
(* keywords and phrases of the winning intent matched by the first, and    *)
(* those the second matches in addition.                                   *)
(***************************************************************************)
MaxMatches == 3
MaxBaseScore == 3

\* calculateIntentScores: a keyword adds 1 and a phrase 2 to its intent's score
ScoresWith(base, winner, keywordMatches, phraseMatches) ==
  [ base EXCEPT ![winner] = @ + keywordMatches + 2 * phraseMatches ]

\* extractKeywords: the matched entries of the intent, five at most
KeywordsWith(keywordMatches, phraseMatches) ==
  [ i \in 1..Min(5, keywordMatches + phraseMatches) |-> "keyword" ]

InitScore ==
  /\ Constructed
  /\ \E winner \in { IntentTypes[i] : i \in 1..Len(IntentTypes) },
        base \in [ { IntentTypes[i] : i \in 1..Len(IntentTypes) } -> 0..MaxBaseScore ],
        keywordMatches \in 0..MaxMatches, phraseMatches \in 0..MaxMatches,
        moreKeywords \in 0..1, morePhrases \in 0..1,
        product \in { None, Some("unknown"), Some("rice") } :
       /\ moreKeywords + morePhrases > 0
       /\ selectPrimaryIntent(ScoresWith(base, winner, keywordMatches, phraseMatches))
            = winner
       /\ probe = [ op |-> "calculateConfidence", winner |-> winner, base |-> base,
                    keywordMatches |-> keywordMatches, phraseMatches |-> phraseMatches,
                    moreKeywords |-> moreKeywords, morePhrases |-> morePhrases,
                    product |-> product, done |-> FALSE, fewer |-> 0, more |-> 0 ]

\* the confidence of the utterance with fewer matches and of the one with more
CallCalculateConfidence ==
  /\ probe.op = "calculateConfidence" /\ ~probe.done
  /\ probe' =
       [ probe EXCEPT
           !.done = TRUE,
           !.fewer = calculateConfidence(
                       ScoresWith(probe.base, probe.winner, probe.keywordMatches,
                                  probe.phraseMatches),
                       KeywordsWith(probe.keywordMatches, probe.phraseMatches),
                       probe.product),
           !.more = calculateConfidence(
                      ScoresWith(probe.base, probe.winner,
                                 probe.keywordMatches + probe.moreKeywords,
                                 probe.phraseMatches + probe.morePhrases),
                      KeywordsWith(probe.keywordMatches + probe.moreKeywords,
                                   probe.phraseMatches + probe.morePhrases),
                      probe.product) ]
  /\ UNCHANGED << currentLanguage, priceLoad, recognition, isProcessing, pc, voiceText,
                  fault, locals, responseText, criticalError, phrases,
                  storage, retry, stages, listen, ui >>

NextScore == CallCalculateConfidence

SpecScore == InitScore /\ [][NextScore]_vars

TestedLanguageTags ==
  { "en-US", "hi-IN", "kn-IN", "ta-IN", "te-IN", "bn-IN", "mr-IN", "gu-IN", "pa-IN",
    "or-IN", "ml-IN", "as-IN", "ur-IN" }

\* C16: for each tag the tests list as supported, formatResponse on data it can
\* render returns a response that is no fallback, whose language field names the
\* language of the tag and whose text comes from that language's own templates
\* (so it differs from the English text unless the tag is en-US).
C16_ListedTagsRenderInOwnLanguage ==
  ( /\ Called("formatResponse")
    /\ probe.language \in TestedLanguageTags
    /\ ~probe.internalError )
  => /\ ~Get(probe.result).fallback
     /\ Get(probe.result).language = getLanguageCode(probe.language)
     /\ probe.language # "en-US"
          => Get(probe.result).text # formatResponse(probe.data, "en-US").text

\* the tags and names normalizeLanguage knows; every other tag has no bundle
BundleTags == { "en-US", "hi-IN", "kn-IN", "english", "hindi", "kannada" }

\* C17: for a tag without a template bundle formatResponse renders with the
\* English bundle: its body throws only where it throws for en-US, and where it
\* does not the response is no fallback and is the English response.
C17_UnknownTagRendersInEnglish ==
  ( Called("formatResponse") /\ probe.language \notin BundleTags )
  => /\ probe.internalError = responseBody(probe.data, "en-US").threw
     /\ ~probe.internalError
          => /\ ~Get(probe.result).fallback
             /\ Get(probe.result).language = "english"
             /\ Get(probe.result) = formatResponse(probe.data, "en-US")

\* a quote with price boundaries rendered for ta-IN from the English templates
C17_Witness ==
  /\ Called("formatResponse")
  /\ probe.language = "ta-IN"
  /\ ~probe.internalError
  /\ ~Get(probe.result).fallback
  /\ Includes(Get(probe.result).text, "the market range is")

(***************************************************************************)
(* One request at a time (Spec).                                           *)
(***************************************************************************)
\* C18: a run of processVoiceInput begins only while no run is in progress: the
\* previous one has gone through its finally block, whatever mic clicks, speech
\* results, recognition errors and retry timers occur.
C18_OneRunAtATime ==
  [][ pc' = "classify" => pc = "idle" /\ ~isProcessing ]_vars

\* a second run begins while a retry timer of an earlier error is pending
C18_Witness ==
  /\ pc = "classify"
  /\ isProcessing
  /\ Len(phrases) > Len(InitialPhrases)
  /\ retryTimers > 0

(***************************************************************************)
(* Counter-offers in the pipeline (Spec).                                  *)
(***************************************************************************)
OfferLevels == << "first_offer", "second_offer", "final_offer" >>

\* C19: whenever the lookup has yielded a quote for a bargaining or bulk_purchase
\* request (no stage's call having failed), the guidance handed to formatResponse
\* has three counter-offers, first_offer, second_offer and final_offer in this
\* order, each with a numeric price.
C19_QuotedRequestGetsThreeOffers ==
  ( /\ pc \in AfterGuide
    /\ fault = "none"
    /\ Get(intent).type \in {"bargaining", "bulk_purchase"}
    /\ ~IsNull(priceData) )
  => LET offers == Get(negotiationGuidance).counterOffers
     IN  /\ Len(offers) = Len(OfferLevels)
         /\ \A i \in 1..Len(OfferLevels) :
              /\ offers[i].level = OfferLevels[i]
              /\ ~IsNull(offers[i].price)

(***************************************************************************)
(* The counter-offers of a quote with price boundaries (SpecOffers).  The  *)
(* boundaries are those generatePriceRange derives from a base price with  *)
(* calculateNegotiationRange; the customer's price awareness chooses the   *)
(* starting price (market or recommended).                                 *)
(***************************************************************************)
MaxBasePrice == 60

\* the ranges member generatePriceRange builds
RangesOf(basePrice) ==
  LET negotiationRange == calculateNegotiationRange(basePrice)
  IN  [ minimum |-> negotiationRange.absoluteMinimum,
        safe |-> negotiationRange.safeMinimum,
        market |-> negotiationRange.marketPrice,
        premium |-> negotiationRange.premiumPrice,
        recommended |-> negotiationRange.recommendedStart ]

InitOffers ==
  /\ Constructed
  /\ \E basePrice \in 1..MaxBasePrice, priceAwareness \in { "high", "moderate" } :
       probe = [ op |-> "generateCounterOffers", ranges |-> RangesOf(basePrice),
                 priceAwareness |-> priceAwareness, done |-> FALSE, result |-> << >> ]

CallGenerateCounterOffers ==
  /\ probe.op = "generateCounterOffers" /\ ~probe.done
  /\ probe' = [ probe EXCEPT
                  !.done = TRUE,
                  !.result = generateCounterOffers(
                               [ ranges |-> Some(probe.ranges) ],
                               createFallbackIntent(""),
                               [ priceAwareness |-> probe.priceAwareness ]) ]
  /\ UNCHANGED << currentLanguage, priceLoad, recognition, isProcessing, pc, voiceText,
                  fault, locals, responseText, criticalError, phrases,
                  storage, retry, stages, listen, ui >>

NextOffers == CallGenerateCounterOffers

SpecOffers == InitOffers /\ [][NextOffers]_vars

\* C20: every numeric counter-offer price is at least the safe minimum of the
\* quote, for every starting price and every level's reduction.
C20_OffersNotBelowSafeMinimum ==
  Called("generateCounterOffers")
    => \A i \in 1..Len(probe.result) :
         ~IsNull(probe.result[i].price)
           => Get(probe.result[i].price) >= probe.ranges.safe

\* an offer whose discounted price was below the safe minimum and was raised to it
C20_Witness ==
  /\ Called("generateCounterOffers")
  /\ probe.priceAwareness = "high"
  /\ \E i \in 1..Len(probe.result) :
       /\ RoundMul(probe.ranges.market, 100 - counterOfferRules[i].reduction, 100)
            < probe.ranges.safe
       /\ probe.result[i].price = Some(probe.ranges.safe)


(***************************************************************************)
(* The order of the stages in a request (Spec).                            *)
(***************************************************************************)
\* the stages the request must have called when it reaches displayResponse
StagesInOrder ==
  << "classify" >>
    \o (IF currentLanguage # "en-US" THEN << "translate" >> ELSE << >>)
    \o << "quote", "guide", "render" >>

\* C21: a request that reaches the display has called classify, translate if
\* the selected language is not the default, quote, guide and render, in
\* that order, and no stage but translate was skipped
C21_AllStagesInOrder == pc = "display" => stages = StagesInOrder


(***************************************************************************)
(* The quote's market price (SpecUnit).                                    *)
(***************************************************************************)
\* the entry getMarketPrice resolves: the product's own, the fuzzy match, or
\* the defaults of the category
resolvedProductData(product, category, loaded) ==
  LET normalizedProduct == normalizeProductName(product)
      direct == Lookup(enginePriceData(loaded),
                       IF IsNull(normalizedProduct) THEN "null"
                       ELSE Get(normalizedProduct))
      fuzzy == IF IsNull(direct)
                 THEN findProductByFuzzyMatch(normalizedProduct, enginePriceData(loaded))
               ELSE direct
  IN  IF IsNull(fuzzy) /\ ~IsNull(category) /\ category \notin {Some(""), Some("general")}
        THEN getCategoryDefaults(Get(category), engineCategories(loaded))
      ELSE fuzzy

\* C25: the marketPrice of a quote getMarketPrice returns is the static price
\* of the entry it resolved, whatever the market variation drawn
C25_MarketPriceIsStaticPrice ==
  Called("getMarketPrice") /\ ~IsNull(probe.result)
    => Get(probe.result).marketPrice
         = Some(Get(resolvedProductData(probe.product, probe.category,
                                        isDataLoaded)).marketPrice)


(***************************************************************************)
(* The default intent (SpecUnit).                                          *)
(***************************************************************************)
\* the three scores of the text classifyIntent was called with are zero
NothingMatched ==
  /\ Called("classifyIntent")
  /\ ~IsNull(probe.text)
  /\ \A type \in { "bargaining", "bulk_purchase", "casual_inquiry" } :
       calculateIntentScores(normalizeText(Get(probe.text)))[type] = 0

\* C28: an utterance that matches no keyword, phrase or contextual rule of
\* any category is classified as casual_inquiry
C28_NoMatchIsCasualInquiry ==
  NothingMatched => Get(probe.result).type = "casual_inquiry"

\* words that match nothing have been classified
C28_Witness ==
  /\ NothingMatched
  /\ Get(probe.text) = UnmatchedUtterance
  /\ Get(probe.result).type = "casual_inquiry"


\* the price of the offer at a level of the list returned
OfferPrice(level) ==
  Get(probe.result[CHOOSE i \in 1..Len(probe.result) :
                     probe.result[i].level = level].price)

\* C29: the progressive counter-offers never rise: the first offer's price
\* is at least the second's, which is at least the final offer's
C29_OffersNonIncreasing ==
  Called("generateCounterOffers")
    => /\ OfferPrice("first_offer") >= OfferPrice("second_offer")
       /\ OfferPrice("second_offer") >= OfferPrice("final_offer")

\* three offers that fall strictly, for a customer who is not price-aware
C29_Witness ==
  /\ Called("generateCounterOffers")
  /\ probe.priceAwareness = "moderate"
  /\ OfferPrice("first_offer") > OfferPrice("second_offer")
  /\ OfferPrice("second_offer") > OfferPrice("final_offer")


(***************************************************************************)
(* The listening layer (SpecListen): the microphone control, the           *)
(* recogniser's session and its events, the 30 s listening timeout and the *)
(* listening indicator.  A session is "starting" between start() and its   *)
(* start event, then "listening"; stop() makes it "stopping", a result or  *)
(* an error "ending"; the end event closes it.  start() on a session that  *)
(* has not ended throws InvalidStateError.  processVoiceInput runs from    *)
(* its first line to its last inside the result's handler.                 *)
(***************************************************************************)
MaxStarts == 3

ListenUtterances == { "too expensive" }

\* LinguisticBridge.stopListening, but for the status line
stopListening ==
  /\ indicator' = FALSE
  /\ timers' = timers \ { listeningTimeout }
  /\ listeningTimeout' = 0

\* VoiceInterface.stopListening
voiceStopListening ==
  /\ session' = IF isListening /\ session = "listening" THEN "stopping" ELSE session
  /\ isListening' = FALSE

\* handleVoiceError: showErrorWithRetry hides the status line and shows the
\* error with its buttons
handleVoiceError(retryable) ==
  /\ stopListening
  /\ isProcessing' = FALSE
  /\ notice' = "none"
  /\ criticalError' = FALSE
  /\ retryOffered' = retryable

\* LinguisticBridge.startListening, called while VoiceInterface.isListening
\* is false: the timeout of the call is armed over the handle the field
\* holds, then recognition.start() is called; if it throws, the error
\* callback runs handleVoiceError with 'start-failed', which clears the
\* timeout just armed
startListening ==
  /\ starts < MaxStarts
  /\ starts' = starts + 1
  /\ responseText' = None
  /\ criticalError' = FALSE
  /\ isListening' = isListening
  /\ IF session = "none"
       THEN /\ session' = "starting"
            /\ sessionId' = starts + 1
            /\ indicator' = TRUE
            /\ timers' = timers \cup { starts + 1 }
            /\ listeningTimeout' = starts + 1
            /\ notice' = "preparing"
            /\ retryOffered' = FALSE
            /\ isProcessing' = isProcessing
       ELSE /\ UNCHANGED << session, sessionId, timers >>
            /\ indicator' = FALSE
            /\ listeningTimeout' = 0
            /\ notice' = "none"
            /\ retryOffered' = TRUE
            /\ isProcessing' = FALSE

\* variant: handleVoiceInput without the check of isProcessing
handleVoiceInputUnguarded ==
  IF isListening
    THEN /\ voiceStopListening
         /\ UNCHANGED << sessionId, starts, timers, listeningTimeout, indicator,
                         notice, isProcessing, responseText, criticalError,
                         retryOffered >>
    ELSE startListening

\* handleVoiceInput, the recogniser being supported
handleVoiceInput ==
  IF isProcessing
    THEN /\ notice' = "please-wait"
         /\ UNCHANGED << isListening, session, sessionId, starts, timers,
                         listeningTimeout, indicator, isProcessing, responseText,
                         criticalError, retryOffered >>
  ELSE IF isListening
    THEN /\ voiceStopListening
         /\ UNCHANGED << sessionId, starts, timers, listeningTimeout, indicator,
                         notice, isProcessing, responseText, criticalError,
                         retryOffered >>
    ELSE startListening

\* a click on the microphone button, or Space or Enter on it
MicActivated ==
  /\ handleVoiceInput
  /\ UNCHANGED << currentLanguage, priceLoad, recognition, pc, voiceText, fault,
                  locals, phrases, probe, storage, retryTimers, stages, ui >>

\* a retry timer fires and calls handleVoiceInput
RetryTimerFires ==
  /\ retryTimers > 0
  /\ retryTimers' = retryTimers - 1
  /\ handleVoiceInput
  /\ UNCHANGED << currentLanguage, priceLoad, recognition, pc, voiceText, fault,
                  locals, phrases, probe, storage, stages, ui >>

\* the Escape key
EscapeKey ==
  /\ isListening
  /\ voiceStopListening
  /\ UNCHANGED << currentLanguage, priceLoad, recognition, isProcessing, pc,
                  voiceText, fault, locals, responseText, criticalError, phrases,
                  probe, storage, retry, stages, sessionId, starts, timers,
                  listeningTimeout, indicator, notice, ui >>

\* recognition.onstart
OnStart ==
  /\ session = "starting"
  /\ session' = "listening"
  /\ isListening' = TRUE
  /\ UNCHANGED << currentLanguage, priceLoad, recognition, isProcessing, pc,
                  voiceText, fault, locals, responseText, criticalError, phrases,
                  probe, storage, retry, stages, sessionId, starts, timers,
                  listeningTimeout, indicator, notice, ui >>

\* recognition.onresult with a final transcript: processVoiceInput stops the
\* listening display, runs the stages and shows the response; critical: the
\* display throws and the outer catch shows its message
OnResult(text, rand, critical) ==
  /\ pc = "idle"
  /\ session \in { "listening", "stopping" }
  /\ Len(phrases) < MaxPhrases
  /\ session' = "ending"
  /\ stopListening
  /\ isProcessing' = FALSE
  /\ retryOffered' = FALSE
  /\ criticalError' = critical
  /\ notice' = IF critical THEN "critical" ELSE "none"
  /\ \E classified \in { classifyStage(text, currentLanguage, FALSE).value } :
     \E translated \in { translateStage(text, currentLanguage, classified, FALSE).value } :
     \E quote \in { quoteStage(classified, rand, isDataLoaded, FALSE).value } :
     \E guidance \in { guideStage(classified, quote, translated, phrases, FALSE) } :
     \E rendered \in { renderStage(classified, quote, Get(guidance.value),
                                   currentLanguage, FALSE).value } :
       /\ responseText' = IF critical THEN responseText
                          ELSE Some(filterResponse(rendered, currentLanguage).text)
       /\ phrases' = guidance.phrases
  /\ UNCHANGED << currentLanguage, priceLoad, recognition, pc, voiceText, fault,
                  locals, probe, storage, retryTimers, stages, isListening,
                  sessionId, starts, ui >>

\* recognition.onerror
OnError(retryable) ==
  /\ session \in { "starting", "listening", "stopping" }
  /\ session' = "ending"
  /\ isListening' = FALSE
  /\ handleVoiceError(retryable)
  /\ UNCHANGED << currentLanguage, priceLoad, recognition, pc, voiceText, fault,
                  locals, responseText, phrases, probe, storage, retryTimers,
                  stages, sessionId, starts, ui >>

\* recognition.onend: after a result, an error or stop(), or with nothing heard
OnEnd ==
  /\ session \in { "listening", "stopping", "ending" }
  /\ session' = "none"
  /\ sessionId' = 0
  /\ isListening' = FALSE
  /\ UNCHANGED << currentLanguage, priceLoad, recognition, isProcessing, pc,
                  voiceText, fault, locals, responseText, criticalError, phrases,
                  probe, storage, retry, stages, starts, timers,
                  listeningTimeout, indicator, notice, ui >>

\* the timeout armed by the k-th call of startListening fires
ListeningTimeout(k) ==
  /\ k \in timers
  /\ timers' = timers \ { k }
  /\ voiceStopListening
  /\ notice' = IF isListening THEN "timeout" ELSE notice
  /\ UNCHANGED << currentLanguage, priceLoad, recognition, isProcessing, pc,
                  voiceText, fault, locals, responseText, criticalError, phrases,
                  probe, storage, retry, stages, sessionId, starts,
                  listeningTimeout, indicator, ui >>

InitListen == Constructed /\ probe = [ op |-> "none" ]

NextListen ==
  \/ \E ok \in BOOLEAN : LoadPriceData(ok)
  \/ MicActivated
  \/ EscapeKey
  \/ OnStart
  \/ \E text \in ListenUtterances, rand \in RandomDraws, critical \in BOOLEAN :
       OnResult(text, rand, critical)
  \/ \E retryable \in BOOLEAN : OnError(retryable)
  \/ OnEnd
  \/ \E k \in 1..MaxStarts : ListeningTimeout(k)
  \/ RetryClick
  \/ DismissError
  \/ RetryTimerFires

SpecListen == InitListen /\ [][NextListen]_vars

\* C22: recognition.start() is called only when no session started earlier
\* is still alive, the time between a start() and its start event included
C22_StartOnlyWithoutLiveSession ==
  [][ starts' # starts => session = "none" ]_vars

\* C23: a listening timeout stops only the session that armed it
C23_TimeoutStopsOwnSession ==
  [][ timers' # timers /\ isListening /\ notice' = "timeout" /\ ~isListening'
        => timers \ timers' = { sessionId } ]_vars

\* C24: the listening indicator is shown only while a session is alive or a
\* request is being processed
C24_IndicatorOnlyWhileListening ==
  indicator => session # "none" \/ isProcessing


(***************************************************************************)
(* The microphone control and isProcessing (SpecMic).  processVoiceInput   *)
(* awaits only methods that finish without waiting, so the page handles no *)
(* event between its first line and its last.  Here the listening layer    *)
(* runs under an event loop that does: the request begins in the result's  *)
(* handler and ends in a later step, as it would if an awaited stage took  *)
(* time, and the controls and the recogniser's events come in between.     *)
(***************************************************************************)
\* processVoiceInput up to its first await
BeginRequest(text) ==
  /\ pc = "idle"
  /\ session \in { "listening", "stopping" }
  /\ Len(phrases) < MaxPhrases
  /\ session' = "ending"
  /\ stopListening
  /\ isProcessing' = TRUE
  /\ notice' = "processing"
  /\ voiceText' = text
  /\ pc' = "processing"
  /\ UNCHANGED << currentLanguage, priceLoad, recognition, fault, locals,
                  responseText, criticalError, phrases, probe, storage, retry,
                  stages, isListening, sessionId, starts, ui >>

\* the rest of processVoiceInput: the stages, the display or the outer catch,
\* and the finally block
EndRequest(rand, critical) ==
  /\ pc = "processing"
  /\ pc' = "idle"
  /\ voiceText' = ""
  /\ isProcessing' = FALSE
  /\ criticalError' = critical
  /\ notice' = IF critical THEN "critical" ELSE "none"
  /\ \E classified \in { classifyStage(voiceText, currentLanguage, FALSE).value } :
     \E translated \in { translateStage(voiceText, currentLanguage, classified, FALSE).value } :
     \E quote \in { quoteStage(classified, rand, isDataLoaded, FALSE).value } :
     \E guidance \in { guideStage(classified, quote, translated, phrases, FALSE) } :
     \E rendered \in { renderStage(classified, quote, Get(guidance.value),
                                   currentLanguage, FALSE).value } :
       /\ responseText' = IF critical THEN responseText
                          ELSE Some(filterResponse(rendered, currentLanguage).text)
       /\ phrases' = guidance.phrases
  /\ UNCHANGED << currentLanguage, priceLoad, recognition, fault, locals, probe,
                  storage, retry, stages, isListening, session, sessionId,
                  starts, timers, listeningTimeout, indicator, ui >>

InitMic == Constructed /\ probe = [ op |-> "none" ]

NextMic ==
  \/ \E ok \in BOOLEAN : LoadPriceData(ok)
  \/ MicActivated
  \/ EscapeKey
  \/ OnStart
  \/ \E text \in ListenUtterances : BeginRequest(text)
  \/ \E rand \in RandomDraws, critical \in BOOLEAN : EndRequest(rand, critical)
  \/ \E retryable \in BOOLEAN : OnError(retryable)
  \/ OnEnd
  \/ \E k \in 1..MaxStarts : ListeningTimeout(k)
  \/ RetryClick
  \/ DismissError
  \/ RetryTimerFires

SpecMic == InitMic /\ [][NextMic]_vars

\* C26: while isProcessing is true an activation of the microphone control
\* starts no session and stops none; it shows the please-wait notice
C26_ActivationWhileProcessingOnlyWaits ==
  [][ isProcessing /\ MicActivated
        => /\ UNCHANGED << isListening, session, sessionId, starts, timers,
                           indicator, isProcessing >>
           /\ notice' = "please-wait" ]_vars

\* the control was activated during a request, before the session of the
\* request's result has ended: the notice is shown and the session is as
\* it was
C26_Witness ==
  /\ isProcessing
  /\ pc = "processing"
  /\ notice = "please-wait"
  /\ session = "ending"
  /\ isListening


(***************************************************************************)
(* The end of a request (FairSpec).                                        *)
(***************************************************************************)
\* C27: every run of processVoiceInput, whether its stages succeed, fall
\* back or fail into the outer catch, eventually leaves isProcessing false
C27_ProcessingEventuallyEnds == isProcessing ~> ~isProcessing

\* a run that hit the critical error path has ended and the flag is reset
C27_Witness ==
  /\ pc = "idle"
  /\ recognition = "done"
  /\ criticalError
  /\ ~isProcessing


(***************************************************************************)
(* The minimal page (SpecUI): UIStateManager with its three states, the    *)
(* VoiceInterface and the LinguisticBridge of the clean implementation.    *)
(* The microphone button has two click listeners, handleMicClick and       *)
(* handleVoiceInput, run in the order they were added.  The status         *)
(* message handleError shows is hidden again by resetToIdle in the same    *)
(* handler.                                                                *)
(***************************************************************************)
MaxResponseTimers == 2

UILanguages == { "hi-IN", "kn-IN", "en-US" }

\* a click on the microphone button.  handleMicClick, in the idle state,
\* enters listening and sets showResponse to run 3 s later; handleVoiceInput
\* enters listening and calls VoiceInterface.startListening, which returns
\* false while isListening and calls recognition.start() if not; start() on
\* a session that has not ended throws and handleError resets to idle, as
\* handleVoiceInput does when the call returns false
UIMicClick ==
  /\ currentState = "idle" => responseTimers < MaxResponseTimers
  /\ responseTimers' = IF currentState = "idle" THEN responseTimers + 1
                       ELSE responseTimers
  /\ uiIsListening' = uiIsListening
  /\ IF ~uiIsListening /\ uiSession = "none"
       THEN /\ currentState' = "listening"
            /\ uiSession' = "starting"
            /\ uiVoiceLanguage' = uiLanguage
       ELSE /\ currentState' = "idle"
            /\ uiSession' = uiSession
            /\ uiVoiceLanguage' = IF uiIsListening THEN uiVoiceLanguage ELSE uiLanguage
  /\ uiLanguage' = uiLanguage
  /\ UNCHANGED << currentLanguage, priceLoad, recognition, isProcessing, pc,
                  voiceText, fault, locals, responseText, criticalError, phrases,
                  probe, storage, retry, stages, listen >>

\* the timer of UIStateManager.startListening fires: showResponse
ShowResponseTimer ==
  /\ responseTimers > 0
  /\ responseTimers' = responseTimers - 1
  /\ currentState' = "response"
  /\ UNCHANGED << currentLanguage, priceLoad, recognition, isProcessing, pc,
                  voiceText, fault, locals, responseText, criticalError, phrases,
                  probe, storage, retry, stages, listen, uiIsListening, uiSession,
                  uiLanguage, uiVoiceLanguage >>

\* a click on the new-query button: resetToIdle
NewQueryClick ==
  /\ currentState' = "idle"
  /\ UNCHANGED << currentLanguage, priceLoad, recognition, isProcessing, pc,
                  voiceText, fault, locals, responseText, criticalError, phrases,
                  probe, storage, retry, stages, listen, responseTimers,
                  uiIsListening, uiSession, uiLanguage, uiVoiceLanguage >>

\* the change listener of the language selector
LanguageChange(language) ==
  /\ uiLanguage # language
  /\ uiLanguage' = language
  /\ UNCHANGED << currentLanguage, priceLoad, recognition, isProcessing, pc,
                  voiceText, fault, locals, responseText, criticalError, phrases,
                  probe, storage, retry, stages, listen, currentState,
                  responseTimers, uiIsListening, uiSession, uiVoiceLanguage >>

\* the page is hidden: VoiceInterface.stopListening calls recognition.stop()
\* and leaves isListening as it is
VisibilityHidden ==
  /\ uiIsListening
  /\ uiSession = "listening"
  /\ uiSession' = "stopping"
  /\ UNCHANGED << currentLanguage, priceLoad, recognition, isProcessing, pc,
                  voiceText, fault, locals, responseText, criticalError, phrases,
                  probe, storage, retry, stages, listen, currentState,
                  responseTimers, uiIsListening, uiLanguage, uiVoiceLanguage >>

\* recognition.onstart
UIOnStart ==
  /\ uiSession = "starting"
  /\ uiSession' = "listening"
  /\ uiIsListening' = TRUE
  /\ UNCHANGED << currentLanguage, priceLoad, recognition, isProcessing, pc,
                  voiceText, fault, locals, responseText, criticalError, phrases,
                  probe, storage, retry, stages, listen, currentState,
                  responseTimers, uiLanguage, uiVoiceLanguage >>

\* recognition.onresult: processSpeechResult fills the response cards 1 s
\* later and changes no state
UIOnResult ==
  /\ uiSession \in { "listening", "stopping" }
  /\ uiSession' = "ending"
  /\ UNCHANGED << currentLanguage, priceLoad, recognition, isProcessing, pc,
                  voiceText, fault, locals, responseText, criticalError, phrases,
                  probe, storage, retry, stages, listen, currentState,
                  responseTimers, uiIsListening, uiLanguage, uiVoiceLanguage >>

\* recognition.onerror: handleError shows the message and resets to idle
UIOnError ==
  /\ uiSession \in { "starting", "listening", "stopping" }
  /\ uiSession' = "ending"
  /\ uiIsListening' = FALSE
  /\ currentState' = "idle"
  /\ UNCHANGED << currentLanguage, priceLoad, recognition, isProcessing, pc,
                  voiceText, fault, locals, responseText, criticalError, phrases,
                  probe, storage, retry, stages, listen, responseTimers,
                  uiLanguage, uiVoiceLanguage >>

\* recognition.onend
UIOnEnd ==
  /\ uiSession \in { "listening", "stopping", "ending" }
  /\ uiSession' = "none"
  /\ uiIsListening' = FALSE
  /\ UNCHANGED << currentLanguage, priceLoad, recognition, isProcessing, pc,
                  voiceText, fault, locals, responseText, criticalError, phrases,
                  probe, storage, retry, stages, listen, currentState,
                  responseTimers, uiLanguage, uiVoiceLanguage >>

InitUI == Constructed /\ probe = [ op |-> "none" ]

NextUI ==
  \/ UIMicClick
  \/ ShowResponseTimer
  \/ NewQueryClick
  \/ \E language \in UILanguages : LanguageChange(language)
  \/ VisibilityHidden
  \/ UIOnStart
  \/ UIOnResult
  \/ UIOnError
  \/ UIOnEnd

SpecUI == InitUI /\ [][NextUI]_vars

\* C30: the response state is entered only from the listening state
C30_ResponseOnlyFromListening ==
  [][ currentState' = "response" /\ currentState # "response"
        => currentState = "listening" ]_vars

=============================================================================
